---- MODULE Spec2Model ----
(***************************************************************************)
(* Model of the sms-solvers orchestration core:                            *)
(*   - the RetryableError taxonomy (src/src/errors.rs and the provider     *)
(*     error types),                                                       *)
(*   - the polling state machine                                           *)
(*     SmsSolverService::wait_for_sms_code_cancellable                     *)
(*     (src/src/service/structure.rs),                                     *)
(*   - the retry decorator SmsRetryableProvider                            *)
(*     (src/src/providers/retryable/mod.rs, src/src/utils/retry.rs).       *)
(*                                                                         *)
(* Durations are whole ticks (natural numbers).  The provider behind the   *)
(* service is the environment: every call returns one of the values its    *)
(* signature allows, after a latency the environment chooses.              *)
(***************************************************************************)
EXTENDS Integers, Sequences, FiniteSets, TLC

\* ------------------------------------------------------------------------
\* Bounds of the model
\* ------------------------------------------------------------------------

\* Largest configured timeout, in ticks (0 is included: Duration::ZERO).
MaxTimeout == 3

\* Largest configured poll interval, in ticks (at least 1: time advances).
MaxPollInterval == 2

\* Largest time one provider call may take, in ticks.
MaxLatency == 1

\* Largest min_delay / max_delay of a RetryConfig, in ticks.
MaxDelay == 3

\* Largest backoff factor of a RetryConfig (whole factors, 0 included).
MaxFactor == 2

\* Largest max_retries of a RetryConfig.
MaxRetries == 3

\* ------------------------------------------------------------------------
\* Values
\* ------------------------------------------------------------------------

TaskIds == {"task123", "task456"}

SmsCodes == {"123456", "654321"}

\* ------------------------------------------------------------------------
\* Error taxonomy
\* ------------------------------------------------------------------------

\* The variants of SmsActivateErrorCode (parameters of Banned,
\* WrongMaxPrice and Unknown are left out: they do not take part in the
\* classification).
SmsActivateErrorCode ==
    { "NoNumbers", "ErrorSql", "ChannelsLimit", "NoActivation", "BadKey",
      "BadAction", "OrderAlreadyExists", "BadService", "WrongExceptionPhone",
      "Banned", "WrongMaxPrice", "EarlyCancelDenied", "BadStatus",
      "WrongActivationId", "Unknown" }

\* is_retryable that retries what it does not know.
Code_is_retryable_unknown(c) ==
    c \in {"NoNumbers", "ErrorSql", "ChannelsLimit", "Unknown"}

\* SmsActivateErrorCode::is_retryable
Code_is_retryable(c) == c \in {"NoNumbers", "ErrorSql", "ChannelsLimit"}

\* Code_should_retry_operation that rules out a fresh attempt for the
\* transient codes.
Code_should_retry_operation_not_transient(c) ==
    c \in {"NoActivation", "WrongActivationId"}

\* SmsActivateErrorCode::should_retry_operation
Code_should_retry_operation(c) ==
    CASE c \in {"NoNumbers", "ErrorSql", "ChannelsLimit"} -> TRUE
      [] c \in {"NoActivation", "WrongActivationId"} -> TRUE
      [] c \in {"BadKey", "BadAction", "OrderAlreadyExists", "BadService",
                "WrongExceptionPhone", "Banned", "WrongMaxPrice",
                "EarlyCancelDenied", "BadStatus"} -> FALSE
      [] c = "Unknown" -> FALSE

\* SmsActivateErrorCode::code_name (Unknown carries the raw text
\* "NO_SUCH_CODE").
code_name(c) ==
    CASE c = "NoNumbers" -> "NO_NUMBERS"
      [] c = "ErrorSql" -> "ERROR_SQL"
      [] c = "ChannelsLimit" -> "CHANNELS_LIMIT"
      [] c = "NoActivation" -> "NO_ACTIVATION"
      [] c = "BadKey" -> "BAD_KEY"
      [] c = "BadAction" -> "BAD_ACTION"
      [] c = "OrderAlreadyExists" -> "ORDER_ALREADY_EXISTS"
      [] c = "BadService" -> "BAD_SERVICE"
      [] c = "WrongExceptionPhone" -> "WRONG_EXCEPTION_PHONE"
      [] c = "Banned" -> "BANNED"
      [] c = "WrongMaxPrice" -> "WRONG_MAX_PRICE"
      [] c = "EarlyCancelDenied" -> "EARLY_CANCEL_DENIED"
      [] c = "BadStatus" -> "BAD_STATUS"
      [] c = "WrongActivationId" -> "WRONG_ACTIVATION_ID"
      [] c = "Unknown" -> "NO_SUCH_CODE"

\* SmsActivateErrorCode::description (Banned until "2030-01-01 00-00-00",
\* WrongMaxPrice without a minimum).
description(c) ==
    CASE c = "NoNumbers" -> "No numbers available"
      [] c = "ErrorSql" -> "Internal SQL error on service side"
      [] c = "ChannelsLimit" -> "Account blocked by channel limits"
      [] c = "NoActivation" -> "Activation does not exist"
      [] c = "BadKey" -> "Invalid API key"
      [] c = "BadAction" -> "Incorrect action"
      [] c = "OrderAlreadyExists" -> "Order already exists"
      [] c = "BadService" -> "Incorrect service code"
      [] c = "WrongExceptionPhone" -> "Incorrect excluding prefixes"
      [] c = "Banned" -> "Account banned until 2030-01-01 00-00-00"
      [] c = "WrongMaxPrice" -> "Maximum price is less than allowed minimum"
      [] c = "EarlyCancelDenied" -> "Not allowed to cancel within first 2 minutes"
      [] c = "BadStatus" -> "Incorrect status"
      [] c = "WrongActivationId" -> "Invalid activation ID"
      [] c = "Unknown" -> "Unknown error: NO_SUCH_CODE"

\* The variants of SmsActivateError; Service carries an error code.
SmsActivateVariants ==
    { "BuildHttpClient", "BuildRequestUrl", "HttpRequest", "ParseResponse",
      "SolutionTimeout", "CountryMapping", "FailedToParseSetStatusResponse",
      "DeserializeJson" }

SmsActivateError ==
    [type : {"SmsActivateError"}, variant : {"Service"}, code : SmsActivateErrorCode]
    \cup [type : {"SmsActivateError"}, variant : SmsActivateVariants, code : {"-"}]

\* The error type of the mock provider of the service tests.
MockError ==
    [type : {"MockError"}, variant : {"Generic", "Transient"}, code : {"-"}]

\* The error values a provider call can return (P::Error).
ProviderErrors == SmsActivateError \cup MockError

\* impl RetryableError for SmsActivateError: is_retryable
SmsActivateError_is_retryable(e) ==
    CASE e.variant = "Service" -> Code_is_retryable(e.code)
      [] e.variant = "HttpRequest" -> TRUE
      [] e.variant \in {"BuildHttpClient", "BuildRequestUrl", "ParseResponse",
                        "SolutionTimeout", "CountryMapping",
                        "FailedToParseSetStatusResponse", "DeserializeJson"} ->
            FALSE

\* impl RetryableError for SmsActivateError: should_retry_operation
SmsActivateError_should_retry_operation(e) ==
    CASE e.variant = "Service" -> Code_should_retry_operation(e.code)
      [] e.variant = "HttpRequest" -> TRUE
      [] e.variant = "SolutionTimeout" -> TRUE
      [] e.variant \in {"BuildHttpClient", "BuildRequestUrl", "ParseResponse",
                        "CountryMapping", "FailedToParseSetStatusResponse",
                        "DeserializeJson"} -> FALSE

\* impl RetryableError for MockError: is_retryable (the only method it has)
MockError_is_retryable(e) == e.variant = "Transient"

\* An error type of a provider outside the crate: an implementation of
\* RetryableError is free in both answers, which the value carries here.
ImplError ==
    [type : {"ImplError"}, variant : {"-"}, code : {"-"},
     is_retryable : BOOLEAN, should_retry_operation : BOOLEAN]

\* RetryableError::is_retryable, dispatched on the error type.
is_retryable(e) ==
    IF e.type = "MockError" THEN MockError_is_retryable(e)
    ELSE IF e.type = "ImplError" THEN e.is_retryable
    ELSE SmsActivateError_is_retryable(e)

\* Whether the error type provides its own should_retry_operation.
overrides_should_retry_operation(e) ==
    e.type \in {"SmsActivateError", "ImplError"}

\* The trait's default should_retry_operation with the answer negated.
default_should_retry_operation_negated(e) == ~is_retryable(e)

\* The default body of RetryableError::should_retry_operation.
default_should_retry_operation(e) == is_retryable(e)

\* RetryableError::should_retry_operation, dispatched on the error type.
should_retry_operation(e) ==
    IF overrides_should_retry_operation(e)
    THEN IF e.type = "ImplError" THEN e.should_retry_operation
         ELSE SmsActivateError_should_retry_operation(e)
    ELSE default_should_retry_operation(e)

\* Display of SmsActivateError, from its #[error] format strings.  Values
\* embedded in an error (a source error, a raw body, a country, a time) are
\* the fixed texts written here.
SmsActivateError_to_string(e) ==
    CASE e.variant = "Service" ->
            "SMS Activate service error: SMS Activate service error: code="
                \o code_name(e.code) \o ", description=" \o description(e.code)
      [] e.variant = "BuildHttpClient" -> "Failed to build HTTP client: source"
      [] e.variant = "BuildRequestUrl" ->
            "Error building SMS Activate request URL: source"
      [] e.variant = "HttpRequest" -> "Failed to send HTTP request: source"
      [] e.variant = "ParseResponse" -> "Failed to parse response: source"
      [] e.variant = "SolutionTimeout" ->
            "Timeout waiting for SMS after 1.0s; Task id: task123"
      [] e.variant = "CountryMapping" ->
            "No SMS-Activate mapping for country country"
      [] e.variant = "FailedToParseSetStatusResponse" ->
            "Failed to parse SetStatus response: raw"
      [] e.variant = "DeserializeJson" ->
            "Failed to deserialize JSON response: source"

\* Display of MockError; Generic carries the text "Cancel failed".
MockError_to_string(e) ==
    IF e.variant = "Generic" THEN "Mock error: Cancel failed"
                             ELSE "Transient error"

\* e.to_string()
to_string(e) ==
    IF e.type = "MockError" THEN MockError_to_string(e)
    ELSE IF e.type = "ImplError" THEN "Impl error"
    ELSE SmsActivateError_to_string(e)

\* ------------------------------------------------------------------------
\* Provider responses
\* ------------------------------------------------------------------------

NotYet == [ok |-> TRUE, some |-> FALSE]

Code(c) == [ok |-> TRUE, some |-> TRUE, code |-> c]

Err(e) == [ok |-> FALSE, error |-> e]

\* Result<Option<SmsCode>, P::Error>
GetSmsCodeResults ==
    {NotYet} \cup {Code(c) : c \in SmsCodes} \cup {Err(e) : e \in ProviderErrors}

\* Result<(), P::Error>
CancelResults == {[ok |-> TRUE]} \cup {Err(e) : e \in ProviderErrors}

\* No call has returned yet.
NoResponse == [ok |-> TRUE, some |-> FALSE, none |-> TRUE]

\* ------------------------------------------------------------------------
\* State of one polling run
\* ------------------------------------------------------------------------

VARIABLES
    pc,             \* position of the polling future
    entry,          \* which entry point was called
    task_id,        \* the task the run polls
    timeout,        \* self.config.timeout
    poll_interval,  \* self.config.poll_interval
    caller_token,   \* the caller's CancellationToken: is_cancelled()
    clock,          \* time since `start`
    poll_count,     \* the local poll_count
    elapsed,        \* the local elapsed of the exit path
    exit_path,      \* which branch asked for the cleanup cancel
    poll_error,     \* the permanent error of the poll, on the error path
    sms_calls,      \* task id of every get_sms_code call started
    last_response,  \* what the latest get_sms_code call returned
    not_yet_count,  \* how many get_sms_code calls returned Ok(None)
    transient_count,\* how many get_sms_code calls returned a retryable error
    cancel_calls,   \* task id of every cancel_activation call made
    cancel_result,  \* what the cancel_activation call returned
    cancelled_at_call, \* whether the token was cancelled when the run began
    raised_at,      \* where the run was when the token was cancelled
    result          \* what the run returned

poll_vars ==
    << pc, entry, task_id, timeout, poll_interval, caller_token, clock,
       poll_count, elapsed, exit_path, poll_error, sms_calls, last_response,
       not_yet_count, transient_count, cancel_calls, cancel_result,
       cancelled_at_call, raised_at, result >>

Pending == [kind |-> "Pending"]

\* SmsSolverServiceError variants returned by the polling loop, and Ok.
Ok(c) == [kind |-> "Ok", code |-> c]

\* SmsTimeout with the two durations in each other's field.
SmsTimeout_swapped(t, el, n, id) ==
    [kind |-> "SmsTimeout", timeout |-> el, elapsed |-> t, poll_count |-> n,
     task_id |-> id]

SmsTimeout(t, el, n, id) ==
    [kind |-> "SmsTimeout", timeout |-> t, elapsed |-> el, poll_count |-> n,
     task_id |-> id]

\* Cancelled that reports one poll more than the run counted.
Cancelled_one_more(el, n, id) ==
    [kind |-> "Cancelled", elapsed |-> el, poll_count |-> n + 1, task_id |-> id]

Cancelled(el, n, id) ==
    [kind |-> "Cancelled", elapsed |-> el, poll_count |-> n, task_id |-> id]

CancelFailed(id, msg) ==
    [kind |-> "CancelFailed", task_id |-> id, message |-> msg]

Provider(e, r, o) ==
    [kind |-> "Provider", source |-> e, is_retryable |-> r,
     should_retry_operation |-> o]

\* The token has not been cancelled.
NeverRaised == [pc |-> "never", calls |-> 0]

\* is_cancelled that reads the caller's token on both entry points.
is_cancelled_callers_token == caller_token

\* cancel_token.is_cancelled(): wait_for_sms_code passes a token of its own,
\* CancellationToken::new(), which nobody else holds.
is_cancelled ==
    IF entry = "wait_for_sms_code_cancellable" THEN caller_token ELSE FALSE

PollInit ==
    /\ pc = "idle"
    /\ entry = "none"
    /\ task_id \in TaskIds
    /\ timeout \in 0..MaxTimeout
    /\ poll_interval \in 1..MaxPollInterval
    /\ caller_token = FALSE
    /\ clock = 0
    /\ poll_count = 0
    /\ elapsed = 0
    /\ exit_path = "none"
    /\ poll_error = NoResponse
    /\ sms_calls = << >>
    /\ last_response = NoResponse
    /\ not_yet_count = 0
    /\ transient_count = 0
    /\ cancel_calls = << >>
    /\ cancel_result = NoResponse
    /\ cancelled_at_call = FALSE
    /\ raised_at = NeverRaised
    /\ result = Pending

\* The caller (or any holder of a clone of its token) calls cancel().
RaiseCancel ==
    /\ pc # "done"
    /\ entry # "wait_for_sms_code"
    /\ ~caller_token
    /\ caller_token' = TRUE
    /\ raised_at' = [pc |-> pc, calls |-> Len(sms_calls)]
    /\ UNCHANGED << pc, entry, task_id, timeout, poll_interval, clock,
                    poll_count, elapsed, exit_path, poll_error, sms_calls,
                    last_response, not_yet_count, transient_count,
                    cancel_calls, cancel_result, cancelled_at_call, result >>

\* The body of wait_for_sms_code_cancellable before the loop.
Enter(e) ==
    /\ pc = "idle"
    /\ entry' = e
    /\ cancelled_at_call' = (e = "wait_for_sms_code_cancellable" /\ caller_token)
    /\ clock' = 0
    /\ poll_count' = 0
    /\ pc' = "check"
    /\ UNCHANGED << task_id, timeout, poll_interval, caller_token, elapsed,
                    exit_path, poll_error, sms_calls, last_response,
                    not_yet_count, transient_count, cancel_calls,
                    cancel_result, raised_at, result >>

wait_for_sms_code == Enter("wait_for_sms_code")

wait_for_sms_code_cancellable == Enter("wait_for_sms_code_cancellable")

\* loop_check with the two checks in the other order.
loop_check_timeout_first(cancelled, el, t) ==
    IF el >= t THEN "timeout"
    ELSE IF cancelled THEN "cancelled"
    ELSE "poll"

\* loop_check that never looks at the token.
loop_check_ignores_token(cancelled, el, t) ==
    IF el >= t THEN "timeout" ELSE "poll"

\* The two checks at the top of every loop iteration, in the order of the
\* code: cancellation first, then the timeout, and only then the poll.
loop_check(cancelled, el, t) ==
    IF cancelled THEN "cancelled"
    ELSE IF el >= t THEN "timeout"
    ELSE "poll"

\* cleanup_call that returns from the permanent-error path without cleanup.
cleanup_call_not_on_error(path, calls, id) ==
    IF path = "error" THEN calls ELSE Append(calls, id)

\* The provider.cancel_activation(task_id) call of an exit path: the calls
\* made so far, with this one.
cleanup_call(path, calls, id) == Append(calls, id)

\* if cancel_token.is_cancelled() { elapsed = start.elapsed(); cancel ... }
\* The token is read once, at the top of the iteration; when it is not
\* cancelled the iteration goes on to the timeout check.
LoopCheck ==
    /\ pc = "check"
    /\ CASE loop_check(is_cancelled, clock, timeout) = "cancelled" ->
              /\ elapsed' = clock
              /\ exit_path' = "cancelled"
              /\ cancel_calls' = cleanup_call("cancelled", cancel_calls, task_id)
              /\ pc' = "cancelling"
         [] OTHER ->
              /\ pc' = "checked"
              /\ UNCHANGED << elapsed, exit_path, cancel_calls >>
    /\ UNCHANGED << entry, task_id, timeout, poll_interval, caller_token,
                    clock, poll_count, poll_error, sms_calls, last_response,
                    not_yet_count, transient_count, cancel_result,
                    cancelled_at_call, raised_at, result >>

\* let elapsed = start.elapsed(); if elapsed >= timeout { cancel ... }
\* poll_count += 1; provider.get_sms_code(task_id) is called.
\* The cancelled branch was not taken, so the token is not read again.
TimeoutCheck ==
    /\ pc = "checked"
    /\ elapsed' = clock
    /\ CASE loop_check(FALSE, clock, timeout) = "timeout" ->
              /\ exit_path' = "timeout"
              /\ cancel_calls' = cleanup_call("timeout", cancel_calls, task_id)
              /\ pc' = "cancelling"
              /\ UNCHANGED << poll_count, sms_calls >>
         [] OTHER ->
              /\ poll_count' = poll_count + 1
              /\ sms_calls' = Append(sms_calls, task_id)
              /\ pc' = "polling"
              /\ UNCHANGED << exit_path, cancel_calls >>
    /\ UNCHANGED << entry, task_id, timeout, poll_interval, caller_token,
                    clock, poll_error, last_response, not_yet_count,
                    transient_count, cancel_result, cancelled_at_call,
                    raised_at, result >>

\* poll_outcome whose first arm is Ok(_): a code is dropped.
poll_outcome_any_ok(r) ==
    IF r.ok
    THEN "continue"
    ELSE (IF ~is_retryable(r.error) THEN "cleanup" ELSE "continue")

\* poll_outcome without the guard of the error arm: every error ends the run.
poll_outcome_no_guard(r) ==
    IF r.ok
    THEN (IF r.some THEN "return" ELSE "continue")
    ELSE "cleanup"

\* What the loop does with the value of provider.get_sms_code(task_id):
\* "return" (Ok(Some)), "cleanup" (permanent error) or "continue".
poll_outcome(r) ==
    IF r.ok
    THEN (IF r.some THEN "return" ELSE "continue")
    ELSE (IF ~is_retryable(r.error) THEN "cleanup" ELSE "continue")

\* PollReturns that looks at the token and the clock before the result: a
\* code that arrives after a cancellation or after the timeout is dropped
\* and the loop goes on to its checks.
PollReturns_checks_first(r, d) ==
    /\ pc = "polling"
    /\ clock' = clock + d
    /\ last_response' = r
    /\ not_yet_count' = IF r = NotYet THEN not_yet_count + 1 ELSE not_yet_count
    /\ transient_count' =
          IF ~r.ok /\ is_retryable(r.error) THEN transient_count + 1
                                             ELSE transient_count
    /\ CASE poll_outcome(r) = "return"
             /\ ~is_cancelled /\ clock + d < timeout ->
              /\ result' = Ok(r.code)
              /\ pc' = "done"
              /\ UNCHANGED << elapsed, exit_path, poll_error, cancel_calls >>
         [] poll_outcome(r) = "cleanup" ->
              /\ poll_error' = r.error
              /\ elapsed' = clock + d
              /\ exit_path' = "error"
              /\ cancel_calls' = cleanup_call("error", cancel_calls, task_id)
              /\ pc' = "cancelling"
              /\ UNCHANGED result
         [] OTHER ->
              /\ pc' = "sleeping"
              /\ UNCHANGED << elapsed, exit_path, poll_error, cancel_calls,
                              result >>
    /\ UNCHANGED << entry, task_id, timeout, poll_interval, caller_token,
                    poll_count, sms_calls, cancel_result, cancelled_at_call,
                    raised_at >>

\* provider.get_sms_code(task_id) has returned r after d ticks: the match on
\* it.
PollReturns(r, d) ==
    /\ pc = "polling"
    /\ clock' = clock + d
    /\ last_response' = r
    /\ not_yet_count' = IF r = NotYet THEN not_yet_count + 1 ELSE not_yet_count
    /\ transient_count' =
          IF ~r.ok /\ is_retryable(r.error) THEN transient_count + 1
                                             ELSE transient_count
    /\ CASE poll_outcome(r) = "return" ->
              /\ result' = Ok(r.code)
              /\ pc' = "done"
              /\ UNCHANGED << elapsed, exit_path, poll_error, cancel_calls >>
         [] poll_outcome(r) = "cleanup" ->
              /\ poll_error' = r.error
              /\ elapsed' = clock + d
              /\ exit_path' = "error"
              /\ cancel_calls' = cleanup_call("error", cancel_calls, task_id)
              /\ pc' = "cancelling"
              /\ UNCHANGED result
         [] OTHER ->
              /\ pc' = "sleeping"
              /\ UNCHANGED << elapsed, exit_path, poll_error, cancel_calls,
                              result >>
    /\ UNCHANGED << entry, task_id, timeout, poll_interval, caller_token,
                    poll_count, sms_calls, cancel_result, cancelled_at_call,
                    raised_at >>

\* provider.get_sms_code(task_id) returns, with any result of the provider.
GetSmsCodeReturns ==
    \E r \in GetSmsCodeResults, d \in 0..MaxLatency : PollReturns(r, d)

\* Sleep that returns at once: the next iteration starts without waiting.
Sleep_returns_at_once ==
    /\ pc = "sleeping"
    /\ pc' = "check"
    /\ UNCHANGED << entry, task_id, timeout, poll_interval, caller_token,
                    clock, poll_count, elapsed, exit_path, poll_error,
                    sms_calls, last_response, not_yet_count, transient_count,
                    cancel_calls, cancel_result, cancelled_at_call,
                    raised_at, result >>

\* tokio::time::sleep(poll_interval).await, then the next iteration.
Sleep ==
    /\ pc = "sleeping"
    /\ clock' = clock + poll_interval
    /\ pc' = "check"
    /\ UNCHANGED << entry, task_id, timeout, poll_interval, caller_token,
                    poll_count, elapsed, exit_path, poll_error, sms_calls,
                    last_response, not_yet_count, transient_count,
                    cancel_calls, cancel_result, cancelled_at_call,
                    raised_at, result >>

\* exit_result that ignores a failed cleanup on the timeout path.
exit_result_masks_cancel_error(path, c) ==
    IF ~c.ok /\ path # "timeout"
    THEN CancelFailed(task_id, to_string(c.error))
    ELSE CASE path = "cancelled" -> Cancelled(elapsed, poll_count, task_id)
           [] path = "timeout" -> SmsTimeout(timeout, elapsed, poll_count, task_id)
           [] path = "error" ->
                Provider(poll_error, FALSE, should_retry_operation(poll_error))

\* The value returned after the cleanup call, on each of the three paths.
exit_result(path, c) ==
    IF ~c.ok
    THEN CancelFailed(task_id, to_string(c.error))
    ELSE CASE path = "cancelled" -> Cancelled(elapsed, poll_count, task_id)
           [] path = "timeout" -> SmsTimeout(timeout, elapsed, poll_count, task_id)
           [] path = "error" ->
                Provider(poll_error, FALSE, should_retry_operation(poll_error))

\* provider.cancel_activation(task_id) has returned c; the run returns.
CleanupReturns(c) ==
    /\ pc = "cancelling"
    /\ cancel_result' = c
    /\ result' = exit_result(exit_path, c)
    /\ pc' = "done"
    /\ UNCHANGED << entry, task_id, timeout, poll_interval, caller_token,
                    clock, poll_count, elapsed, exit_path, poll_error,
                    sms_calls, last_response, not_yet_count, transient_count,
                    cancel_calls, cancelled_at_call, raised_at >>

\* provider.cancel_activation(task_id) returns, with any result of the
\* provider.
CancelActivationReturns == \E c \in CancelResults : CleanupReturns(c)

\* The steps of the polling future itself.
PollStep ==
    \/ LoopCheck
    \/ TimeoutCheck
    \/ GetSmsCodeReturns
    \/ Sleep
    \/ CancelActivationReturns

\* ------------------------------------------------------------------------
\* The retry decorator: one decorated call on SmsRetryableProvider
\* ------------------------------------------------------------------------

FullNumbers ==
    { << "3", "8", "0", "5", "0", "1", "2", "3", "4", "5", "6", "7" >> }

\* RetryConfig::default()
RetryConfig_default ==
    [min_delay |-> 1, max_delay |-> 30, factor |-> 2, max_retries |-> 3]

\* The configurations of the model: the default and a grid of small ones.
\* Delays are whole ticks and factors whole numbers, for which the f32
\* arithmetic of the backoff is exact.
RetryConfigs ==
    {RetryConfig_default}
    \cup [min_delay : 0..MaxDelay, max_delay : 0..MaxDelay,
          factor : 0..MaxFactor, max_retries : 0..MaxRetries]

\* Option<Duration>::None of the backoff's current_delay.
NoDelay == -1

\* build_strategy that forgets with_max_times: the builder's default, 3.
build_strategy_default_max_times(cfg) ==
    [jitter |-> FALSE, factor |-> cfg.factor, min_delay |-> cfg.min_delay,
     max_delay |-> cfg.max_delay, max_times |-> 3,
     current_delay |-> NoDelay, attempts |-> 0]

\* build_strategy that forgets with_max_delay: the builder's default, 60 s.
build_strategy_default_max_delay(cfg) ==
    [jitter |-> FALSE, factor |-> cfg.factor, min_delay |-> cfg.min_delay,
     max_delay |-> 60, max_times |-> cfg.max_retries,
     current_delay |-> NoDelay, attempts |-> 0]

\* RetryConfig::build_strategy: ExponentialBuilder::default() (no jitter)
\* with the four settings of the configuration, as the backoff it builds
\* when the retry starts: no delay handed out yet, no attempt counted.
build_strategy(cfg) ==
    [jitter |-> FALSE, factor |-> cfg.factor, min_delay |-> cfg.min_delay,
     max_delay |-> cfg.max_delay, max_times |-> cfg.max_retries,
     current_delay |-> NoDelay, attempts |-> 0]

\* The next delay of the exponential backoff built by build_strategy (the
\* ExponentialBuilder of the backon crate, which the retry iterates):
\* none once max_times delays were handed out; the first is min_delay;
\* each later one is the previous one times factor (only while it is
\* below max_delay), clamped to max_delay.
next_delay(b) ==
    IF b.attempts >= b.max_times
    THEN [some |-> FALSE, delay |-> 0, backoff |-> b]
    ELSE LET grown == IF b.current_delay < b.max_delay
                      THEN b.current_delay * b.factor
                      ELSE b.current_delay
             cur == IF b.current_delay = NoDelay THEN b.min_delay
                    ELSE IF grown > b.max_delay THEN b.max_delay
                    ELSE grown
         IN [some |-> TRUE, delay |-> cur,
             backoff |-> [b EXCEPT !.attempts = @ + 1, !.current_delay = cur]]

\* retry_when that retries every error.
retry_when_always(e) == TRUE

\* retry_when that refuses every error: nothing is retried.
retry_when_never(e) == FALSE

\* .when(|err| err.is_retryable()): whether an error may be retried.
retry_when(e) == is_retryable(e)

\* The errors the inner provider returns in the model of the decorator:
\* the mock errors and one SmsActivateError of each classification.
InnerErrors ==
    MockError
    \cup { [type |-> "SmsActivateError", variant |-> "Service", code |-> "NoNumbers"],
           [type |-> "SmsActivateError", variant |-> "Service", code |-> "BadKey"],
           [type |-> "SmsActivateError", variant |-> "HttpRequest", code |-> "-"] }

\* Result<(TaskId, FullNumber), P::Error>
PhoneNumber(id, n) == [ok |-> TRUE, task_id |-> id, full_number |-> n]

\* Result<(), P::Error>::Ok(())
Unit == [ok |-> TRUE]

\* What one invocation of the inner operation can return.
InnerResults(op) ==
    {Err(e) : e \in InnerErrors}
    \cup (IF op = "get_phone_number"
          THEN {PhoneNumber("task123", n) : n \in FullNumbers}
          ELSE IF op = "get_sms_code"
          THEN {NotYet, Code("123456")}
          ELSE {Unit})

\* A decorator that wraps all four operations in the retry.
is_retried_all(op) == TRUE

\* Whether the decorator wraps the operation in .retry(..): get_phone_number
\* and get_sms_code are; finish_activation and cancel_activation call the
\* inner provider directly.
is_retried(op) == op \in {"get_phone_number", "get_sms_code"}

\* A notify closure that drops the callback.
notify_never(callback, calls, err, duration) == calls

\* The closure given to .notify(..): the user callback, when one is set, is
\* called with the error and the delay; calls is the record of its calls.
notify(callback, calls, err, duration) ==
    IF callback THEN Append(calls, << err, duration >>) ELSE calls

VARIABLES
    call_pc,        \* position of the decorated call
    call_op,        \* the decorated operation
    retry_config,   \* self.retry_config
    on_retry,       \* whether self.on_retry is Some
    backoff,        \* the backoff of this call
    inner_calls,    \* how many times the inner operation was invoked
    inner_result,   \* what the latest invocation returned
    sleeps,         \* the delays slept, in order
    callback_calls, \* the (error, delay) pairs handed to on_retry, in order
    call_result     \* what the decorated call returned

retry_vars ==
    << call_pc, call_op, retry_config, on_retry, backoff, inner_calls,
       inner_result, sleeps, callback_calls, call_result >>

\* No decorated call is made.
RetryParked ==
    /\ call_pc = "parked"
    /\ call_op = "none"
    /\ retry_config = RetryConfig_default
    /\ on_retry = FALSE
    /\ backoff = build_strategy(RetryConfig_default)
    /\ inner_calls = 0
    /\ inner_result = NoResponse
    /\ sleeps = << >>
    /\ callback_calls = << >>
    /\ call_result = Pending

\* No polling run is made.
PollParked ==
    /\ pc = "parked"
    /\ entry = "none"
    /\ task_id = "task123"
    /\ timeout = 0
    /\ poll_interval = 1
    /\ caller_token = FALSE
    /\ clock = 0
    /\ poll_count = 0
    /\ elapsed = 0
    /\ exit_path = "none"
    /\ poll_error = NoResponse
    /\ sms_calls = << >>
    /\ last_response = NoResponse
    /\ not_yet_count = 0
    /\ transient_count = 0
    /\ cancel_calls = << >>
    /\ cancel_result = NoResponse
    /\ cancelled_at_call = FALSE
    /\ raised_at = NeverRaised
    /\ result = Pending

\* SmsRetryableProvider::with_config(inner, retry_config), with or without
\* with_on_retry(callback).
RetryInit ==
    /\ call_pc = "idle"
    /\ call_op = "none"
    /\ retry_config \in RetryConfigs
    /\ on_retry \in BOOLEAN
    /\ backoff = build_strategy(retry_config)
    /\ inner_calls = 0
    /\ inner_result = NoResponse
    /\ sleeps = << >>
    /\ callback_calls = << >>
    /\ call_result = Pending

\* The decorated operation is called: the backoff is built and the inner
\* operation is invoked for the first time.
Decorated(op) ==
    /\ call_pc = "idle"
    /\ call_op' = op
    /\ backoff' = build_strategy(retry_config)
    /\ inner_calls' = 1
    /\ call_pc' = "inner"
    /\ UNCHANGED << retry_config, on_retry, inner_result, sleeps,
                    callback_calls, call_result >>

Retryable_get_phone_number == Decorated("get_phone_number")

Retryable_get_sms_code == Decorated("get_sms_code")

\* An operation the decorator hands to the inner provider as it is: the
\* inner operation is invoked, and no backoff is built.
Passthrough(op) ==
    /\ call_pc = "idle"
    /\ call_op' = op
    /\ inner_calls' = 1
    /\ call_pc' = "inner"
    /\ UNCHANGED << retry_config, on_retry, backoff, inner_result, sleeps,
                    callback_calls, call_result >>

Retryable_finish_activation == Passthrough("finish_activation")

Retryable_cancel_activation == Passthrough("cancel_activation")

\* The inner operation returns r: the result of an operation that is not
\* wrapped, success, and errors that are not to be retried are returned;
\* otherwise the backoff is asked for a delay, and, when it has one, the
\* notify closure runs and the sleep starts.
InnerReturns ==
    /\ call_pc = "inner"
    /\ \E r \in InnerResults(call_op) :
        /\ inner_result' = r
        /\ IF \/ ~is_retried(call_op)
              \/ r.ok
              \/ ~retry_when(r.error)
              \/ ~next_delay(backoff).some
           THEN /\ call_result' = r
                /\ call_pc' = "done"
                /\ UNCHANGED << backoff, sleeps, callback_calls >>
           ELSE /\ backoff' = next_delay(backoff).backoff
                /\ callback_calls' =
                      notify(on_retry, callback_calls, r.error,
                             next_delay(backoff).delay)
                /\ sleeps' = Append(sleeps, next_delay(backoff).delay)
                /\ call_pc' = "sleeping"
                /\ UNCHANGED call_result
    /\ UNCHANGED << call_op, retry_config, on_retry, inner_calls >>

\* The sleep ends and the inner operation is invoked again.
RetrySleepDone ==
    /\ call_pc = "sleeping"
    /\ inner_calls' = inner_calls + 1
    /\ call_pc' = "inner"
    /\ UNCHANGED << call_op, retry_config, on_retry, backoff, inner_result,
                    sleeps, callback_calls, call_result >>

\* ------------------------------------------------------------------------
\* Several decorated calls in flight on one SmsRetryableProvider
\* ------------------------------------------------------------------------

NumCalls == 2

MaxConcRetries == 2

\* The futures in flight: calls through &self or through clones, which
\* share the inner provider and hold equal configurations.
Calls == 1..NumCalls

\* The configurations of the shared decorator in this part of the model.
ConcConfigs ==
    [min_delay : 1..2, max_delay : {MaxDelay}, factor : {MaxFactor},
     max_retries : 0..MaxConcRetries]

\* What one invocation of the inner operation can return here: a value, a
\* retryable error or a permanent one.
ConcResults(op) ==
    {Err([type |-> "MockError", variant |-> "Transient"]),
     Err([type |-> "MockError", variant |-> "Generic"])}
    \cup (IF op = "get_phone_number"
          THEN {PhoneNumber("task123", n) : n \in FullNumbers}
          ELSE {Code("123456")})

VARIABLES
    c_pc,           \* position of each call
    c_op,           \* the operation of each call
    c_backoff,      \* the backoffs that exist, by slot
    c_inner_calls,  \* how many times each call invoked the inner operation
    c_sleeps,       \* the delays each call slept, in order
    c_result        \* what each call returned

conc_vars == << c_pc, c_op, c_backoff, c_inner_calls, c_sleeps, c_result >>

\* One backoff held by the provider and used by every call.
backoff_slot_shared(c) == 1

\* Where the backoff of call c lives: build_strategy() is called inside the
\* call and its value moves into the retry future of that call, so every
\* call has a backoff of its own.
backoff_slot(c) == c

\* No call is in flight.
ConcParked ==
    /\ c_pc = [c \in Calls |-> "parked"]
    /\ c_op = [c \in Calls |-> "none"]
    /\ c_backoff = [c \in Calls |-> build_strategy(RetryConfig_default)]
    /\ c_inner_calls = [c \in Calls |-> 0]
    /\ c_sleeps = [c \in Calls |-> << >>]
    /\ c_result = [c \in Calls |-> Pending]

\* A decorator over which the calls are about to be made.
ConcInit ==
    /\ c_pc = [c \in Calls |-> "idle"]
    /\ c_op = [c \in Calls |-> "none"]
    /\ c_backoff = [c \in Calls |-> build_strategy(retry_config)]
    /\ c_inner_calls = [c \in Calls |-> 0]
    /\ c_sleeps = [c \in Calls |-> << >>]
    /\ c_result = [c \in Calls |-> Pending]

\* Call c starts: its backoff is built and the inner operation is invoked.
ConcDecorated(c, op) ==
    /\ c_pc[c] = "idle"
    /\ c_op' = [c_op EXCEPT ![c] = op]
    /\ c_backoff' =
          [c_backoff EXCEPT ![backoff_slot(c)] = build_strategy(retry_config)]
    /\ c_inner_calls' = [c_inner_calls EXCEPT ![c] = 1]
    /\ c_pc' = [c_pc EXCEPT ![c] = "inner"]
    /\ UNCHANGED << c_sleeps, c_result >>

Conc_get_phone_number == \E c \in Calls : ConcDecorated(c, "get_phone_number")

Conc_get_sms_code == \E c \in Calls : ConcDecorated(c, "get_sms_code")

\* The inner operation of call c returns r, as in InnerReturns.
ConcInnerReturns ==
    \E c \in Calls :
        /\ c_pc[c] = "inner"
        /\ \E r \in ConcResults(c_op[c]) :
            LET n == next_delay(c_backoff[backoff_slot(c)])
            IN  IF r.ok \/ ~retry_when(r.error) \/ ~n.some
                THEN /\ c_result' = [c_result EXCEPT ![c] = r]
                     /\ c_pc' = [c_pc EXCEPT ![c] = "done"]
                     /\ UNCHANGED << c_backoff, c_sleeps >>
                ELSE /\ c_backoff' =
                           [c_backoff EXCEPT ![backoff_slot(c)] = n.backoff]
                     /\ c_sleeps' =
                           [c_sleeps EXCEPT ![c] = Append(@, n.delay)]
                     /\ c_pc' = [c_pc EXCEPT ![c] = "sleeping"]
                     /\ UNCHANGED c_result
        /\ UNCHANGED << c_op, c_inner_calls >>

\* The sleep of call c ends and it invokes the inner operation again.
ConcSleepDone ==
    \E c \in Calls :
        /\ c_pc[c] = "sleeping"
        /\ c_inner_calls' = [c_inner_calls EXCEPT ![c] = @ + 1]
        /\ c_pc' = [c_pc EXCEPT ![c] = "inner"]
        /\ UNCHANGED << c_op, c_backoff, c_sleeps, c_result >>

\* ------------------------------------------------------------------------
\* Phone number types: strings are sequences of characters
\* ------------------------------------------------------------------------

Digit == {"0", "1", "2", "3", "4", "5", "6", "7", "8", "9"}

\* A character of a string is a string: an ASCII character is written as
\* itself ("5", " ", "\t"), and a character outside ASCII by the name of
\* its code point ("U+00A0", "U+00E9"); no string of the model holds a
\* character outside ASCII in any other form.

\* char::is_whitespace, which str::trim applies, and \s of the regular
\* expressions: the 25 characters of the Unicode property White_Space,
\* U+0009 to U+000D, U+0020, U+0085, U+00A0, U+1680, U+2000 to U+200A,
\* U+2028, U+2029, U+202F, U+205F and U+3000.
Whitespace ==
    {"\t", "\n", "", "\f", "\r", " ", "U+0085", "U+00A0", "U+1680",
     "U+2000", "U+2001", "U+2002", "U+2003", "U+2004", "U+2005", "U+2006",
     "U+2007", "U+2008", "U+2009", "U+200A", "U+2028", "U+2029", "U+202F",
     "U+205F", "U+3000"}

NumberMinLen == 4

NumberMaxLen == 14

RECURSIVE trim_start(_)
trim_start(s) ==
    IF s # << >> /\ Head(s) \in Whitespace THEN trim_start(Tail(s)) ELSE s

RECURSIVE trim_end(_)
trim_end(s) ==
    IF s # << >> /\ s[Len(s)] \in Whitespace
    THEN trim_end(SubSeq(s, 1, Len(s) - 1))
    ELSE s

\* str::trim
trim(s) == trim_end(trim_start(s))

RECURSIVE trim_start_matches(_, _)

\* A normalisation that keeps the '+' signs.
trim_start_matches_nothing(s, ch) == s

\* str::trim_start_matches(ch): every leading ch is removed.
trim_start_matches(s, ch) ==
    IF s # << >> /\ Head(s) = ch THEN trim_start_matches(Tail(s), ch) ELSE s

\* str::starts_with
starts_with(s, prefix) ==
    Len(prefix) <= Len(s) /\ SubSeq(s, 1, Len(prefix)) = prefix

\* str::strip_prefix
strip_prefix(s, prefix) ==
    IF starts_with(s, prefix)
    THEN [some |-> TRUE, rest |-> SubSeq(s, Len(prefix) + 1, Len(s))]
    ELSE [some |-> FALSE, rest |-> << >>]

\* s.chars().all(|c| c.is_ascii_digit())
all_ascii_digit(s) == \A i \in 1..Len(s) : s[i] \in Digit

ParseOk(v) == [ok |-> TRUE, value |-> v]

ParseErr(e) == [ok |-> FALSE, error |-> e]

\* DialCode::new
DialCode_new(s) ==
    LET n == trim_start_matches(trim(s), "+")
    IN  IF n = << >> THEN ParseErr("Empty")
        ELSE IF ~all_ascii_digit(n) THEN ParseErr("NonDigit")
        ELSE ParseOk(n)

\* Number::new
Number_new(str) ==
    LET s == trim(str)
    IN  IF ~all_ascii_digit(s) THEN ParseErr("NonDigit")
        ELSE IF ~(NumberMinLen <= Len(s) /\ Len(s) <= NumberMaxLen)
        THEN ParseErr("InvalidLength")
        ELSE IF starts_with(s, << "0" >>) THEN ParseErr("LeadingZero")
        ELSE ParseOk(s)

\* Number::from_full_number
Number_from_full_number(full, dial_code) ==
    LET full_str == trim_start_matches(trim(full), "+")
        number_part == strip_prefix(full_str, dial_code)
    IN  IF ~number_part.some THEN ParseErr("MissingDialCode")
        ELSE Number_new(number_part.rest)

\* Display of NumberError
NumberError_to_string(e) ==
    CASE e = "NonDigit" -> "number must contain only digits"
      [] e = "InvalidLength" -> "number must be between 4 and 14 digits"
      [] e = "LeadingZero" -> "number cannot start with 0"
      [] e = "MissingDialCode" ->
            "dial code not found at the beginning of the number"

\* The longest run of one digit appended to a first digit in the numbers
\* of the model, which are thus up to MaxNumberFill + 1 characters long.
MaxNumberFill == 14

Repeat(ch, k) == [i \in 1..k |-> ch]

\* National parts given to from_full_number: a first digit and a run of
\* one digit, of every length up to MaxNumberFill + 1, the empty string,
\* a number with a letter in it, numbers with white space around them,
\* and a number after a character that is not white space.
NumNationals ==
    { << f >> \o Repeat(g, k) :
        f \in {"0", "1", "5"}, g \in {"0", "7"}, k \in 0..MaxNumberFill }
    \cup { << >>, << "5", "x", "7", "7", "7" >>,
           << " ", "5", "7", "7", "7" >>,
           << "5", "7", "7", "7", "U+2003" >>,
           << "U+00E9", "5", "7", "7", "7" >> }

\* DialCode values: what DialCode::new accepts.
NumDialCodes == { << "1" >>, << "9", "0" >>, << "3", "8", "0" >> }

\* FullNumber values: FullNumber::new takes any string.  Here: nothing,
\* '+' signs or white space, then a dial code (also one outside
\* NumDialCodes) or none, then a national part.
NumFullNumbers ==
    { pre \o d \o n :
        pre \in { << >>, << "+" >>, << "+", "+" >>, << " " >>, << " ", "+" >>,
                  << "\t" >>, << "\n", "+" >>, << "" >>, << "U+00A0", "+" >>,
                  << "U+2003" >>, << "+", " " >>, << "U+00E9" >> },
        d \in NumDialCodes \cup { << >>, << "4", "4" >> },
        n \in NumNationals }

VARIABLES
    num_pc,      \* whether from_full_number was called
    num_full,    \* its FullNumber argument
    num_dial,    \* its DialCode argument
    num_result   \* what it returned

num_vars == << num_pc, num_full, num_dial, num_result >>

\* No number is parsed.
NumParked ==
    /\ num_pc = "parked"
    /\ num_full = << >>
    /\ num_dial = << "1" >>
    /\ num_result = Pending

\* A full number and a dial code.
NumInit ==
    /\ num_pc = "idle"
    /\ num_full \in NumFullNumbers
    /\ num_dial \in NumDialCodes
    /\ num_result = Pending

\* Number::from_full_number(&full, &dial_code)
from_full_number ==
    /\ num_pc = "idle"
    /\ num_result' = Number_from_full_number(num_full, num_dial)
    /\ num_pc' = "done"
    /\ UNCHANGED << num_full, num_dial >>

\* ------------------------------------------------------------------------
\* SmsSolverService::get_number
\* ------------------------------------------------------------------------

\* CountryCode values: four whose dial codes the tests state, and one of
\* which the source states none.
Countries == {"USA", "UKR", "GBR", "TUR", "ATA"}

\* CountryCode::alpha2
alpha2(country) ==
    CASE country = "USA" -> "US"
      [] country = "UKR" -> "UA"
      [] country = "GBR" -> "GB"
      [] country = "TUR" -> "TR"
      [] country = "ATA" -> "AQ"

\* The maps assets/countries_with_dial_code.json can hold, restricted to
\* the countries of the model.  The entries of four countries are those
\* test_country_to_dial_code states, where that of the USA is written
\* with or without '+'; Antarctica has no entry, an entry DialCode::new
\* accepts, or an entry it rejects.
DialCodeTables ==
    { [a \in {"US", "UA", "GB", "TR"} \cup aq |->
          CASE a = "US" -> us
            [] a = "UA" -> << "3", "8", "0" >>
            [] a = "GB" -> << "4", "4" >>
            [] a = "TR" -> << "9", "0" >>
            [] a = "AQ" -> q] :
        us \in { << "1" >>, << "+", "1" >> },
        aq \in { {}, {"AQ"} },
        q \in { << "+", "6", "7", "2" >>, << "+" >> } }

None == [some |-> FALSE]

Some(v) == [some |-> TRUE, value |-> v]

\* The map built from the dial code asset when the program starts.
VARIABLE ALPHA2_TO_DIAL_CODE

\* country_to_dial_code
country_to_dial_code(country) ==
    IF alpha2(country) \notin DOMAIN ALPHA2_TO_DIAL_CODE THEN None
    ELSE LET dc == DialCode_new(ALPHA2_TO_DIAL_CODE[alpha2(country)])
         IN  IF dc.ok THEN Some(dc.value) ELSE None

\* The national part of the numbers of the model.
National == << "5", "0", "1", "2", "3", "4", "5", "6", "7" >>

\* FullNumber values a provider returns: well-formed numbers of four
\* countries, with '+' signs and white space in front, behind and after
\* the dial code, a character that is not white space, and numbers whose
\* national part starts with 0, is too short or holds a letter, and the
\* empty string.
GnFullNumbers ==
    { << "3", "8", "0" >> \o National,
      << "+", "3", "8", "0" >> \o National,
      << "+", "+", "3", "8", "0" >> \o National,
      << " ", "3", "8", "0" >> \o National \o << " " >>,
      << "\t", "3", "8", "0" >> \o National \o << "\n" >>,
      << "U+00A0", "3", "8", "0" >> \o National \o << "" >>,
      << "U+00E9", "3", "8", "0" >> \o National,
      << "+", " ", "3", "8", "0" >> \o National,
      << "3", "8", "0", " " >> \o National,
      << "3", "8", "0" >> \o National \o << "U+3000" >>,
      << "3", "8", "0", "U+00E9" >> \o National,
      << "6", "7", "2" >> \o National,
      << "1" >> \o National,
      << "9", "0" >> \o National,
      << "3", "8", "0", "0" >> \o National,
      << "3", "8", "0", "5", "0" >>,
      << "3", "8", "0", "5", "x" >> \o National,
      << >> }

\* The errors a provider returns to get_number.
GnProviderErrors == ProviderErrors \cup ImplError

\* Result<(TaskId, FullNumber), P::Error>
GnProviderResults ==
    {Err(e) : e \in GnProviderErrors}
    \cup {PhoneNumber(id, n) : id \in TaskIds, n \in GnFullNumbers}

InvalidDialCode(dial_code, country) ==
    [kind |-> "InvalidDialCode", dial_code |-> dial_code, country |-> country]

NumberParse(full_number, message) ==
    [kind |-> "NumberParse", full_number |-> full_number, message |-> message]

\* SmsTaskResult with the full number in the number field.
SmsTaskResult_number_is_full(id, dial_code, number, full_number, country) ==
    [kind |-> "Ok", task_id |-> id, dial_code |-> dial_code,
     number |-> full_number, full_number |-> full_number, country |-> country]

\* Ok(SmsTaskResult { task_id, dial_code, number, full_number, country })
SmsTaskResult(id, dial_code, number, full_number, country) ==
    [kind |-> "Ok", task_id |-> id, dial_code |-> dial_code,
     number |-> number, full_number |-> full_number, country |-> country]

\* A wrapping that answers both questions with is_retryable.
map_provider_error_one_flag(e) ==
    Provider(e, is_retryable(e), is_retryable(e))

\* The map_err closure of get_number: the provider's error is wrapped with
\* its two answers.
map_provider_error(e) ==
    Provider(e, is_retryable(e), should_retry_operation(e))

\* What get_number returns for a country once provider.get_phone_number
\* has returned r.
get_number_result(country, r) ==
    IF ~r.ok THEN map_provider_error(r.error)
    ELSE LET dial_code == country_to_dial_code(country)
         IN  IF ~dial_code.some THEN InvalidDialCode("unknown", country)
             ELSE LET number == Number_from_full_number(r.full_number,
                                                        dial_code.value)
                  IN  IF ~number.ok
                      THEN NumberParse(r.full_number,
                                       NumberError_to_string(number.error))
                      ELSE SmsTaskResult(r.task_id, dial_code.value,
                                         number.value, r.full_number, country)

VARIABLES
    gn_pc,              \* position of the get_number call
    gn_country,         \* its country argument
    gn_provider_calls,  \* the provider operations it called, in order
    gn_provider_result, \* what provider.get_phone_number returned
    gn_result,          \* what get_number returned
    blacklisted_dial_codes \* the provider's blacklisted_dial_codes

gn_vars ==
    << ALPHA2_TO_DIAL_CODE, gn_pc, gn_country, gn_provider_calls,
       gn_provider_result, gn_result, blacklisted_dial_codes >>

\* The strings given to with_blacklist and blacklist_dial_code.
BlacklistStrings == { << "1" >>, << "3", "8", "0" >>, << "+", "1" >> }

\* SmsActivateProvider::is_dial_code_supported
is_dial_code_supported(blacklist, dial_code) == dial_code \notin blacklist

\* No get_number call is made.
GnParked ==
    /\ ALPHA2_TO_DIAL_CODE = << >>
    /\ gn_pc = "parked"
    /\ gn_country = "none"
    /\ gn_provider_calls = << >>
    /\ gn_provider_result = NoResponse
    /\ gn_result = Pending
    /\ blacklisted_dial_codes = {}

\* SmsActivateProvider::new(client) or with_blacklist(client, blacklist),
\* and a service over it.
GnInit ==
    /\ ALPHA2_TO_DIAL_CODE \in DialCodeTables
    /\ gn_pc = "idle"
    /\ gn_country = "none"
    /\ gn_provider_calls = << >>
    /\ gn_provider_result = NoResponse
    /\ gn_result = Pending
    /\ blacklisted_dial_codes \in SUBSET BlacklistStrings

\* SmsActivateProvider::blacklist_dial_code, before the provider is moved
\* into the service.
blacklist_dial_code ==
    /\ gn_pc = "idle"
    /\ \E dial_code \in BlacklistStrings :
        blacklisted_dial_codes' = blacklisted_dial_codes \cup {dial_code}
    /\ UNCHANGED << ALPHA2_TO_DIAL_CODE, gn_pc, gn_country, gn_provider_calls,
                    gn_provider_result, gn_result >>

\* SmsActivateProvider::remove_from_blacklist
remove_from_blacklist ==
    /\ gn_pc = "idle"
    /\ \E dial_code \in BlacklistStrings :
        blacklisted_dial_codes' = blacklisted_dial_codes \ {dial_code}
    /\ UNCHANGED << ALPHA2_TO_DIAL_CODE, gn_pc, gn_country, gn_provider_calls,
                    gn_provider_result, gn_result >>

\* get_number(country, service) is called and calls
\* provider.get_phone_number.
get_number ==
    /\ gn_pc = "idle"
    /\ \E country \in Countries : gn_country' = country
    /\ gn_provider_calls' = Append(gn_provider_calls, "get_phone_number")
    /\ gn_pc' = "calling"
    /\ UNCHANGED << ALPHA2_TO_DIAL_CODE, gn_provider_result, gn_result,
                    blacklisted_dial_codes >>

\* PhoneNumberReturns that gives the rented number back when get_number
\* fails after the rental.
PhoneNumberReturns_cancels_rental(r) ==
    /\ gn_pc = "calling"
    /\ gn_provider_result' = r
    /\ gn_result' = get_number_result(gn_country, r)
    /\ gn_pc' = "done"
    /\ gn_provider_calls' =
          IF r.ok /\ get_number_result(gn_country, r).kind # "Ok"
          THEN Append(gn_provider_calls, "cancel_activation")
          ELSE gn_provider_calls
    /\ UNCHANGED << ALPHA2_TO_DIAL_CODE, gn_country, blacklisted_dial_codes >>

\* provider.get_phone_number has returned r and get_number runs to its end.
PhoneNumberReturns(r) ==
    /\ gn_pc = "calling"
    /\ gn_provider_result' = r
    /\ gn_result' = get_number_result(gn_country, r)
    /\ gn_pc' = "done"
    /\ UNCHANGED << ALPHA2_TO_DIAL_CODE, gn_country, gn_provider_calls,
                    blacklisted_dial_codes >>

\* provider.get_phone_number returns, with any result of the provider.
GetPhoneNumberReturns == \E r \in GnProviderResults : PhoneNumberReturns(r)

\* impl RetryableError for SmsSolverServiceError: is_retryable
SmsSolverServiceError_is_retryable(err) ==
    CASE err.kind = "Provider" -> err.is_retryable
      [] err.kind \in {"SmsTimeout", "Cancelled", "CancelFailed",
                       "NoNumbersAvailable", "InvalidDialCode", "NumberParse",
                       "DialCodeBlacklisted", "NoAvailableDialCodes"} -> FALSE

\* An impl that leaves should_retry_operation to the trait's default.
SmsSolverServiceError_should_retry_default(err) ==
    SmsSolverServiceError_is_retryable(err)

\* impl RetryableError for SmsSolverServiceError: should_retry_operation
SmsSolverServiceError_should_retry_operation(err) ==
    CASE err.kind = "Provider" -> err.should_retry_operation
      [] err.kind = "SmsTimeout" -> TRUE
      [] err.kind = "NoNumbersAvailable" -> TRUE
      [] err.kind \in {"Cancelled", "CancelFailed", "InvalidDialCode",
                       "NumberParse", "DialCodeBlacklisted",
                       "NoAvailableDialCodes"} -> FALSE

\* ------------------------------------------------------------------------
\* Classification of error values
\* ------------------------------------------------------------------------

NoNumbersAvailable(country) ==
    [kind |-> "NoNumbersAvailable", country |-> country]

DialCodeBlacklisted(dial_code, id) ==
    [kind |-> "DialCodeBlacklisted", dial_code |-> dial_code, task_id |-> id]

NoAvailableDialCodes == [kind |-> "NoAvailableDialCodes"]

\* Values of SmsSolverServiceError: Provider over every provider error
\* with every pair of stored flags, and values of the other variants.
SmsSolverServiceError ==
    {Provider(e, r, o) : e \in GnProviderErrors, r \in BOOLEAN, o \in BOOLEAN}
    \cup {NoNumbersAvailable(c) : c \in Countries}
    \cup {InvalidDialCode("unknown", c) : c \in Countries}
    \cup {NumberParse(n, NumberError_to_string(e)) :
             n \in GnFullNumbers,
             e \in {"NonDigit", "InvalidLength", "LeadingZero",
                    "MissingDialCode"}}
    \cup {SmsTimeout(t, t, n, id) :
             t \in 0..MaxTimeout, n \in 0..MaxTimeout, id \in TaskIds}
    \cup {Cancelled(t, n, id) :
             t \in 0..MaxTimeout, n \in 0..MaxTimeout, id \in TaskIds}
    \cup {CancelFailed(id, to_string(e)) : id \in TaskIds, e \in MockError}
    \cup {DialCodeBlacklisted(<< "3", "8", "0" >>, id) : id \in TaskIds}
    \cup {NoAvailableDialCodes}

\* Values of SmsActivateErrorCode, as error values of their own.
ErrorCodeValues ==
    [type : {"SmsActivateErrorCode"}, code : SmsActivateErrorCode]

\* Every value that implements is_retryable and should_retry_operation.
ClassifiedErrors ==
    SmsSolverServiceError \cup GnProviderErrors \cup ErrorCodeValues

is_service_error(x) == "kind" \in DOMAIN x

\* x.is_retryable(), by the type of x
any_is_retryable(x) ==
    IF is_service_error(x) THEN SmsSolverServiceError_is_retryable(x)
    ELSE IF x.type = "SmsActivateErrorCode" THEN Code_is_retryable(x.code)
    ELSE is_retryable(x)

\* x.should_retry_operation(), by the type of x
any_should_retry_operation(x) ==
    IF is_service_error(x) THEN SmsSolverServiceError_should_retry_operation(x)
    ELSE IF x.type = "SmsActivateErrorCode"
    THEN Code_should_retry_operation(x.code)
    ELSE should_retry_operation(x)

VARIABLES
    cls_pc,                     \* whether the value was classified
    cls_error,                  \* the error value
    cls_is_retryable,           \* what is_retryable() returned
    cls_should_retry_operation  \* what should_retry_operation() returned

cls_vars ==
    << cls_pc, cls_error, cls_is_retryable, cls_should_retry_operation >>

\* No error value is classified.
ClsParked ==
    /\ cls_pc = "parked"
    /\ cls_error = NoAvailableDialCodes
    /\ cls_is_retryable = FALSE
    /\ cls_should_retry_operation = FALSE

\* An error value whose two methods are about to be called.
ClsInit ==
    /\ cls_pc = "idle"
    /\ cls_error \in ClassifiedErrors
    /\ cls_is_retryable = FALSE
    /\ cls_should_retry_operation = FALSE

\* Both methods are called on the value.
Classify ==
    /\ cls_pc = "idle"
    /\ cls_is_retryable' = any_is_retryable(cls_error)
    /\ cls_should_retry_operation' = any_should_retry_operation(cls_error)
    /\ cls_pc' = "done"
    /\ UNCHANGED cls_error

\* ------------------------------------------------------------------------
\* SmsActivateClient: from the response text to the result
\* ------------------------------------------------------------------------

\* The texts of the model: the twelve literal codes of from_raw, texts
\* for its two patterns, the prefix and the replies of set-status, and
\* bodies that are neither.
Text ==
    [
      NO_NUMBERS |->
          << "N", "O", "_", "N", "U", "M", "B", "E", "R", "S" >>,
      ERROR_SQL |->
          << "E", "R", "R", "O", "R", "_", "S", "Q", "L" >>,
      CHANNELS_LIMIT |->
          << "C", "H", "A", "N", "N", "E", "L", "S", "_", "L", "I", "M", "I", "T" >>,
      NO_ACTIVATION |->
          << "N", "O", "_", "A", "C", "T", "I", "V", "A", "T", "I", "O", "N" >>,
      BAD_KEY |->
          << "B", "A", "D", "_", "K", "E", "Y" >>,
      BAD_ACTION |->
          << "B", "A", "D", "_", "A", "C", "T", "I", "O", "N" >>,
      ORDER_ALREADY_EXISTS |->
          << "O", "R", "D", "E", "R", "_", "A", "L", "R", "E", "A", "D", "Y", "_", "E", "X", "I", "S", "T", "S" >>,
      BAD_SERVICE |->
          << "B", "A", "D", "_", "S", "E", "R", "V", "I", "C", "E" >>,
      WRONG_EXCEPTION_PHONE |->
          << "W", "R", "O", "N", "G", "_", "E", "X", "C", "E", "P", "T", "I", "O", "N", "_", "P", "H", "O", "N", "E" >>,
      EARLY_CANCEL_DENIED |->
          << "E", "A", "R", "L", "Y", "_", "C", "A", "N", "C", "E", "L", "_", "D", "E", "N", "I", "E", "D" >>,
      BAD_STATUS |->
          << "B", "A", "D", "_", "S", "T", "A", "T", "U", "S" >>,
      WRONG_ACTIVATION_ID |->
          << "W", "R", "O", "N", "G", "_", "A", "C", "T", "I", "V", "A", "T", "I", "O", "N", "_", "I", "D" >>,
      NO_BALANCE |->
          << "N", "O", "_", "B", "A", "L", "A", "N", "C", "E" >>,
      BANNED |->
          << "B", "A", "N", "N", "E", "D" >>,
      BANNED_UNTIL |->
          << "B", "A", "N", "N", "E", "D", ":", "'", "1", "'" >>,
      WRONG_MAX_PRICE |->
          << "W", "R", "O", "N", "G", "_", "M", "A", "X", "_", "P", "R", "I", "C", "E" >>,
      WRONG_MAX_PRICE_5 |->
          << "W", "R", "O", "N", "G", "_", "M", "A", "X", "_", "P", "R", "I", "C", "E", ":", "5" >>,
      WRONG_MAX_PRICE_X |->
          << "W", "R", "O", "N", "G", "_", "M", "A", "X", "_", "P", "R", "I", "C", "E", ":", "x" >>,
      ACCESS_PREFIX |->
          << "A", "C", "C", "E", "S", "S", "_" >>,
      ACCESS_READY |->
          << "A", "C", "C", "E", "S", "S", "_", "R", "E", "A", "D", "Y" >>,
      ACCESS_RETRY_GET |->
          << "A", "C", "C", "E", "S", "S", "_", "R", "E", "T", "R", "Y", "_", "G", "E", "T" >>,
      ACCESS_ACTIVATION |->
          << "A", "C", "C", "E", "S", "S", "_", "A", "C", "T", "I", "V", "A", "T", "I", "O", "N" >>,
      ACCESS_CANCEL |->
          << "A", "C", "C", "E", "S", "S", "_", "C", "A", "N", "C", "E", "L" >>,
      ACCESS_X |->
          << "A", "C", "C", "E", "S", "S", "_", "X" >>,
      STATUS_OK |->
          << "S", "T", "A", "T", "U", "S", "_", "O", "K" >>,
      HTML |->
          << "<", "h", "t", "m", "l", ">" >>,
      EMPTY_OBJECT |->
          << "{", "}" >>
    ]

\* The prefixes by which looks_like_error_code knows an error code.
known_error_prefixes ==
    { << "N", "O", "_" >>,
      << "E", "R", "R", "O", "R", "_" >>,
      << "B", "A", "D", "_" >>,
      << "W", "R", "O", "N", "G", "_" >>,
      << "E", "A", "R", "L", "Y", "_" >>,
      << "B", "A", "N", "N", "E", "D" >>,
      << "C", "H", "A", "N", "N", "E", "L", "S", "_" >>,
      << "O", "R", "D", "E", "R", "_" >> }

\* looks_like_error_code
looks_like_error_code(s) ==
    IF s = << >> THEN FALSE
    ELSE IF starts_with(s, Text.ACCESS_PREFIX) THEN FALSE
    ELSE \E prefix \in known_error_prefixes : starts_with(s, prefix)

Quote == {"'", "\""}

\* RE_BANNED: ^BANNED\s*:\s*['"]([^'"]+)['"]$
RE_BANNED_matches(s) ==
    LET a == strip_prefix(s, Text.BANNED)
        b == trim_start(a.rest)
        c == IF b = << >> THEN << >> ELSE trim_start(Tail(b))
    IN  /\ a.some
        /\ b # << >>
        /\ Head(b) = ":"
        /\ Len(c) >= 3
        /\ c[1] \in Quote
        /\ c[Len(c)] \in Quote
        /\ \A i \in 2..(Len(c) - 1) : c[i] \notin Quote

\* [0-9]+(?:\.[0-9]+)?
is_decimal(c) ==
    /\ c # << >>
    /\ \/ all_ascii_digit(c)
       \/ \E i \in 2..(Len(c) - 1) :
             /\ c[i] = "."
             /\ all_ascii_digit(SubSeq(c, 1, i - 1))
             /\ all_ascii_digit(SubSeq(c, i + 1, Len(c)))

\* RE_WRONG_MAX_PRICE: ^WRONG_MAX_PRICE\s*:\s*([0-9]+(?:\.[0-9]+)?)$
RE_WRONG_MAX_PRICE_matches(s) ==
    LET a == strip_prefix(s, Text.WRONG_MAX_PRICE)
        b == trim_start(a.rest)
        c == IF b = << >> THEN << >> ELSE trim_start(Tail(b))
    IN  /\ a.some
        /\ b # << >>
        /\ Head(b) = ":"
        /\ is_decimal(c)

\* SmsActivateErrorCode::parse_parametrized_error
parse_parametrized_error(s) ==
    IF RE_BANNED_matches(s) THEN Some("Banned")
    ELSE IF RE_WRONG_MAX_PRICE_matches(s) THEN Some("WrongMaxPrice")
    ELSE IF looks_like_error_code(s) THEN Some("Unknown")
    ELSE None

\* The match of from_raw over the twelve literal codes.
from_raw_literal(s) ==
    CASE s = Text.NO_NUMBERS -> Some("NoNumbers")
      [] s = Text.ERROR_SQL -> Some("ErrorSql")
      [] s = Text.CHANNELS_LIMIT -> Some("ChannelsLimit")
      [] s = Text.NO_ACTIVATION -> Some("NoActivation")
      [] s = Text.BAD_KEY -> Some("BadKey")
      [] s = Text.BAD_ACTION -> Some("BadAction")
      [] s = Text.ORDER_ALREADY_EXISTS -> Some("OrderAlreadyExists")
      [] s = Text.BAD_SERVICE -> Some("BadService")
      [] s = Text.WRONG_EXCEPTION_PHONE -> Some("WrongExceptionPhone")
      [] s = Text.EARLY_CANCEL_DENIED -> Some("EarlyCancelDenied")
      [] s = Text.BAD_STATUS -> Some("BadStatus")
      [] s = Text.WRONG_ACTIVATION_ID -> Some("WrongActivationId")
      [] OTHER -> None

\* SmsActivateErrorCode::from_raw
from_raw(raw) ==
    LET s == trim(raw)
    IN  IF from_raw_literal(s).some THEN from_raw_literal(s)
        ELSE parse_parametrized_error(s)

\* SmsActivateError::Service(SmsActivateServiceError) with the code
ServiceError(code) ==
    [type |-> "SmsActivateError", variant |-> "Service", code |-> code]

ClientError(variant) ==
    [type |-> "SmsActivateError", variant |-> variant, code |-> "-"]

\* SetStatusResponse::from_raw
SetStatusResponse_from_raw(raw) ==
    LET s == trim(raw)
    IN  CASE s = Text.ACCESS_READY -> Some("Ready")
          [] s = Text.ACCESS_RETRY_GET -> Some("RetryGet")
          [] s = Text.ACCESS_ACTIVATION -> Some("Activation")
          [] s = Text.ACCESS_CANCEL -> Some("Cancel")
          [] OTHER -> None

\* serde_json::from_str::<T>(text) over the texts of the model: of these
\* only the empty object is JSON, with or without the white space of JSON
\* (space, tab, line feed, carriage return) in it and around it, and it
\* has the shape of GetSmsResponse (both fields optional), not of
\* GetPhoneNumberResponse.
serde_json_from_str(op, text) ==
    IF /\ op = "get_sms_code"
       /\ SelectSeq(text, LAMBDA ch : ch \notin {" ", "\t", "\n", "\r"})
             = Text.EMPTY_OBJECT
    THEN Some([sms |-> None, call |-> None])
    ELSE None

\* The response bodies of the model, bare and with white space around.
ClientTexts ==
    LET bare == { Text.NO_NUMBERS, Text.BAD_KEY, Text.NO_ACTIVATION, Text.NO_BALANCE,
                  Text.BANNED, Text.BANNED_UNTIL, Text.WRONG_MAX_PRICE,
                  Text.WRONG_MAX_PRICE_5, Text.WRONG_MAX_PRICE_X, Text.ACCESS_CANCEL,
                  Text.ACCESS_READY, Text.ACCESS_X, Text.STATUS_OK, Text.HTML,
                  Text.EMPTY_OBJECT, << >> }
        pad == { << >>, << " " >>, << "\t" >>, << "\r", "\n" >>, << "\f" >>,
                 << "" >>, << "U+00A0" >>, << "U+00E9" >> }
    IN  { a \o t \o b : a \in pad, t \in bare, b \in pad }

ClientOps == {"get_phone_number", "get_sms_code", "set_activation_status"}

\* What send_request returns: the body, or a transport error.
SendResults ==
    {[ok |-> TRUE, text |-> t] : t \in ClientTexts}
    \cup {Err(ClientError("HttpRequest")), Err(ClientError("ParseResponse"))}

\* get_phone_number and get_sms_code after send_request returned the
\* text: SmsActivateResponse::from_text, then into_result.
json_result(op, text) ==
    IF from_raw(text).some THEN Err(ServiceError(from_raw(text).value))
    ELSE IF ~serde_json_from_str(op, text).some
    THEN Err(ClientError("DeserializeJson"))
    ELSE [ok |-> TRUE, data |-> serde_json_from_str(op, text).value]

\* set_activation_status after send_request returned the text:
\* SmsActivateTextResponse::from_text, into_result, then
\* SetStatusResponse::from_raw.
set_status_result(text) ==
    IF from_raw(text).some THEN Err(ServiceError(from_raw(text).value))
    ELSE IF ~SetStatusResponse_from_raw(text).some
    THEN Err(ClientError("FailedToParseSetStatusResponse"))
    ELSE [ok |-> TRUE, data |-> SetStatusResponse_from_raw(text).value]

\* CountryCode values given to the client: three whose SMS Activate ids
\* the tests of countries.rs state, and one the tests state to have none.
ClientCountries == {"UKR", "GBR", "USA", "ATA"}

\* CC2SMS_ID, built from assets/sms_activate_countries.json, restricted to
\* the countries of the model.
CC2SMS_ID ==
    [c \in {"UKR", "GBR", "USA"} |->
        CASE c = "UKR" -> 1
          [] c = "GBR" -> 16
          [] c = "USA" -> 187]

\* SmsCountryExt::sms_id
sms_id(country) ==
    IF country \in DOMAIN CC2SMS_ID
    THEN [ok |-> TRUE, value |-> CC2SMS_ID[country]]
    ELSE Err("NoSmsMapping")

\* What build_request_url returns: the URL, or the error of
\* serde_urlencoded::to_string.
BuildUrlResults == {[ok |-> TRUE], Err(ClientError("BuildRequestUrl"))}

VARIABLES
    client_pc,        \* position of the client call
    client_op,        \* the client operation
    client_country,   \* the country given to get_phone_number
    client_response,  \* what send_request returned
    client_result     \* what the client operation returned

client_vars ==
    << client_pc, client_op, client_country, client_response, client_result >>

\* No client call is made.
ClientParked ==
    /\ client_pc = "parked"
    /\ client_op = "none"
    /\ client_country = "none"
    /\ client_response = NoResponse
    /\ client_result = Pending

ClientInit ==
    /\ client_pc = "idle"
    /\ client_op = "none"
    /\ client_country = "none"
    /\ client_response = NoResponse
    /\ client_result = Pending

\* A client operation builds its URL: build_request_url(..)? returns the
\* error u from the operation, and otherwise the request is sent.
ClientCall(op, u) ==
    /\ client_pc = "idle"
    /\ client_op' = op
    /\ IF ~u.ok
       THEN /\ client_result' = u
            /\ client_pc' = "done"
       ELSE /\ client_pc' = "sent"
            /\ UNCHANGED client_result
    /\ UNCHANGED client_response

\* get_phone_number(country, service): country.sms_id() fails and the
\* operation returns CountryMapping before it builds a URL, or the call
\* goes on as every client call does.
Client_get_phone_number ==
    \E country \in ClientCountries, u \in BuildUrlResults :
        /\ client_country' = country
        /\ IF ~sms_id(country).ok
           THEN /\ client_pc = "idle"
                /\ client_op' = "get_phone_number"
                /\ client_result' = Err(ClientError("CountryMapping"))
                /\ client_pc' = "done"
                /\ UNCHANGED client_response
           ELSE ClientCall("get_phone_number", u)

Client_get_sms_code ==
    \E u \in BuildUrlResults :
        ClientCall("get_sms_code", u) /\ UNCHANGED client_country

Client_set_activation_status ==
    \E u \in BuildUrlResults :
        ClientCall("set_activation_status", u) /\ UNCHANGED client_country

\* send_request returns and the operation runs to its end.
SendRequestReturns ==
    /\ client_pc = "sent"
    /\ \E r \in SendResults :
        /\ client_response' = r
        /\ client_result' =
              IF ~r.ok THEN r
              ELSE IF client_op = "set_activation_status"
              THEN set_status_result(r.text)
              ELSE json_result(client_op, r.text)
    /\ client_pc' = "done"
    /\ UNCHANGED << client_op, client_country >>

\* ------------------------------------------------------------------------
\* SmsSolverServiceConfig: durations in milliseconds
\* ------------------------------------------------------------------------

MIN_TIMEOUT == 10000

MIN_POLL_INTERVAL == 100

\* SmsSolverServiceConfig::fast
fast == [timeout |-> 60000, poll_interval |-> 1000]

\* SmsSolverServiceConfig::balanced
balanced == [timeout |-> 120000, poll_interval |-> 3000]

\* SmsSolverServiceConfig::patient
patient == [timeout |-> 300000, poll_interval |-> 5000]

\* SmsSolverServiceConfig::default
SmsSolverServiceConfig_default == balanced

\* The durations given to the setters: the values around the two minima,
\* zero, and the values of the presets.
ConfigDurations ==
    { 0, MIN_POLL_INTERVAL - 1, MIN_POLL_INTERVAL, MIN_POLL_INTERVAL + 1,
      MIN_TIMEOUT - 1, MIN_TIMEOUT, MIN_TIMEOUT + 1 }
    \cup { fast.timeout, fast.poll_interval, balanced.timeout,
           balanced.poll_interval, patient.timeout, patient.poll_interval }

TimeoutTooShort(timeout_, min) ==
    [ok |-> FALSE, kind |-> "TimeoutTooShort", timeout |-> timeout_,
     min |-> min]

PollIntervalTooShort(interval, min) ==
    [ok |-> FALSE, kind |-> "PollIntervalTooShort", poll_interval |-> interval,
     min |-> min]

PollIntervalExceedsTimeout(interval, timeout_) ==
    [ok |-> FALSE, kind |-> "PollIntervalExceedsTimeout",
     poll_interval |-> interval, timeout |-> timeout_]

\* validate that accepts a poll interval equal to the timeout.
validate_equal_accepted(config) ==
    IF config.timeout < MIN_TIMEOUT
    THEN TimeoutTooShort(config.timeout, MIN_TIMEOUT)
    ELSE IF config.poll_interval < MIN_POLL_INTERVAL
    THEN PollIntervalTooShort(config.poll_interval, MIN_POLL_INTERVAL)
    ELSE IF config.poll_interval > config.timeout
    THEN PollIntervalExceedsTimeout(config.poll_interval, config.timeout)
    ELSE [ok |-> TRUE]

\* SmsSolverServiceConfig::validate
validate(config) ==
    IF config.timeout < MIN_TIMEOUT
    THEN TimeoutTooShort(config.timeout, MIN_TIMEOUT)
    ELSE IF config.poll_interval < MIN_POLL_INTERVAL
    THEN PollIntervalTooShort(config.poll_interval, MIN_POLL_INTERVAL)
    ELSE IF config.poll_interval >= config.timeout
    THEN PollIntervalExceedsTimeout(config.poll_interval, config.timeout)
    ELSE [ok |-> TRUE]

\* SmsSolverServiceConfigBuilder::build
build(builder) ==
    [timeout |-> builder.timeout, poll_interval |-> builder.poll_interval]

\* SmsSolverServiceConfigBuilder::try_build
try_build(builder) ==
    IF validate(build(builder)).ok
    THEN [ok |-> TRUE, config |-> build(builder)]
    ELSE validate(build(builder))

VARIABLES
    cfg_pc,      \* "building", or "done" once the configuration was checked
    cfg_config,  \* the configuration, or the builder, being set up
    cfg_entry,   \* "validate" or "try_build"
    cfg_result   \* what validate or try_build returned

cfg_vars == << cfg_pc, cfg_config, cfg_entry, cfg_result >>

\* No configuration is built.
CfgParked ==
    /\ cfg_pc = "parked"
    /\ cfg_config = SmsSolverServiceConfig_default
    /\ cfg_entry = "none"
    /\ cfg_result = Pending

\* SmsSolverServiceConfig::default() and
\* SmsSolverServiceConfigBuilder::default() hold the balanced values.
CfgInit ==
    /\ cfg_pc = "building"
    /\ cfg_config = SmsSolverServiceConfig_default
    /\ cfg_entry = "none"
    /\ cfg_result = Pending

\* One of the presets is taken.
Preset ==
    /\ cfg_pc = "building"
    /\ cfg_config' \in {fast, balanced, patient}
    /\ UNCHANGED << cfg_pc, cfg_entry, cfg_result >>

\* with_timeout, or timeout of the builder
with_timeout ==
    /\ cfg_pc = "building"
    /\ \E d \in ConfigDurations :
          cfg_config' = [cfg_config EXCEPT !.timeout = d]
    /\ UNCHANGED << cfg_pc, cfg_entry, cfg_result >>

\* with_poll_interval, or poll_interval of the builder
with_poll_interval ==
    /\ cfg_pc = "building"
    /\ \E d \in ConfigDurations :
          cfg_config' = [cfg_config EXCEPT !.poll_interval = d]
    /\ UNCHANGED << cfg_pc, cfg_entry, cfg_result >>

\* config.validate()
Validate ==
    /\ cfg_pc = "building"
    /\ cfg_entry' = "validate"
    /\ cfg_result' = validate(cfg_config)
    /\ cfg_pc' = "done"
    /\ UNCHANGED cfg_config

\* builder.try_build()
TryBuild ==
    /\ cfg_pc = "building"
    /\ cfg_entry' = "try_build"
    /\ cfg_result' = try_build(cfg_config)
    /\ cfg_pc' = "done"
    /\ UNCHANGED cfg_config

\* ------------------------------------------------------------------------
\* SmsService::wait_for_sms_code of src/service.rs
\* ------------------------------------------------------------------------

VARIABLES
    legacy_pc,            \* position of the polling future
    legacy_task_id,       \* the task the run polls
    legacy_timeout,       \* self.config.wait_sms_code_timeout
    legacy_poll_interval, \* self.config.poll_interval
    legacy_clock,         \* time since `start`
    legacy_exit_path,     \* which branch made the cleanup call
    legacy_poll_error,    \* the permanent error of the poll
    legacy_sms_calls,     \* task id of every get_sms_code call started
    legacy_cancel_calls,  \* task id of every cancel_activation call made
    legacy_cancel_result, \* what the cancel_activation call returned
    legacy_result         \* what the run returned

legacy_vars ==
    << legacy_pc, legacy_task_id, legacy_timeout, legacy_poll_interval,
       legacy_clock, legacy_exit_path, legacy_poll_error, legacy_sms_calls,
       legacy_cancel_calls, legacy_cancel_result, legacy_result >>

\* ServiceError::SmsTimeout { timeout, task_id }
ServiceError_SmsTimeout(t, id) ==
    [kind |-> "SmsTimeout", timeout |-> t, task_id |-> id]

\* No run of the service of src/service.rs is made.
LegacyParked ==
    /\ legacy_pc = "parked"
    /\ legacy_task_id = "task123"
    /\ legacy_timeout = 0
    /\ legacy_poll_interval = 1
    /\ legacy_clock = 0
    /\ legacy_exit_path = "none"
    /\ legacy_poll_error = NoResponse
    /\ legacy_sms_calls = << >>
    /\ legacy_cancel_calls = << >>
    /\ legacy_cancel_result = NoResponse
    /\ legacy_result = Pending

LegacyInit ==
    /\ legacy_pc = "idle"
    /\ legacy_task_id \in TaskIds
    /\ legacy_timeout \in 0..MaxTimeout
    /\ legacy_poll_interval \in 1..MaxPollInterval
    /\ legacy_clock = 0
    /\ legacy_exit_path = "none"
    /\ legacy_poll_error = NoResponse
    /\ legacy_sms_calls = << >>
    /\ legacy_cancel_calls = << >>
    /\ legacy_cancel_result = NoResponse
    /\ legacy_result = Pending

\* let start = Instant::now(); loop { ... }
SmsService_wait_for_sms_code ==
    /\ legacy_pc = "idle"
    /\ legacy_clock' = 0
    /\ legacy_pc' = "check"
    /\ UNCHANGED << legacy_task_id, legacy_timeout, legacy_poll_interval,
                    legacy_exit_path, legacy_poll_error, legacy_sms_calls,
                    legacy_cancel_calls, legacy_cancel_result, legacy_result >>

\* if start.elapsed() >= timeout { cancel_activation ... } else the poll.
LegacyTimeoutCheck ==
    /\ legacy_pc = "check"
    /\ IF legacy_clock >= legacy_timeout
       THEN /\ legacy_exit_path' = "timeout"
            /\ legacy_cancel_calls' =
                  Append(legacy_cancel_calls, legacy_task_id)
            /\ legacy_pc' = "cancelling"
            /\ UNCHANGED legacy_sms_calls
       ELSE /\ legacy_sms_calls' = Append(legacy_sms_calls, legacy_task_id)
            /\ legacy_pc' = "polling"
            /\ UNCHANGED << legacy_exit_path, legacy_cancel_calls >>
    /\ UNCHANGED << legacy_task_id, legacy_timeout, legacy_poll_interval,
                    legacy_clock, legacy_poll_error, legacy_cancel_result,
                    legacy_result >>

\* provider.get_sms_code(task_id) returns r after d ticks; the match on it.
LegacyGetSmsCodeReturns ==
    /\ legacy_pc = "polling"
    /\ \E r \in GetSmsCodeResults, d \in 0..MaxLatency :
        /\ legacy_clock' = legacy_clock + d
        /\ CASE poll_outcome(r) = "return" ->
                  /\ legacy_result' = Ok(r.code)
                  /\ legacy_pc' = "done"
                  /\ UNCHANGED << legacy_exit_path, legacy_poll_error,
                                  legacy_cancel_calls >>
             [] poll_outcome(r) = "cleanup" ->
                  /\ legacy_poll_error' = r.error
                  /\ legacy_exit_path' = "error"
                  /\ legacy_cancel_calls' =
                        Append(legacy_cancel_calls, legacy_task_id)
                  /\ legacy_pc' = "cancelling"
                  /\ UNCHANGED legacy_result
             [] OTHER ->
                  /\ legacy_pc' = "sleeping"
                  /\ UNCHANGED << legacy_exit_path, legacy_poll_error,
                                  legacy_cancel_calls, legacy_result >>
    /\ UNCHANGED << legacy_task_id, legacy_timeout, legacy_poll_interval,
                    legacy_sms_calls, legacy_cancel_result >>

\* tokio::time::sleep(poll_interval).await
LegacySleep ==
    /\ legacy_pc = "sleeping"
    /\ legacy_clock' = legacy_clock + legacy_poll_interval
    /\ legacy_pc' = "check"
    /\ UNCHANGED << legacy_task_id, legacy_timeout, legacy_poll_interval,
                    legacy_exit_path, legacy_poll_error, legacy_sms_calls,
                    legacy_cancel_calls, legacy_cancel_result, legacy_result >>

\* What the run returns after the cleanup call returned c: the Err of the
\* call is logged and dropped.
legacy_exit_result(path, c) ==
    CASE path = "timeout" -> ServiceError_SmsTimeout(legacy_timeout, legacy_task_id)
      [] path = "error" ->
           Provider(legacy_poll_error, FALSE,
                    should_retry_operation(legacy_poll_error))

\* provider.cancel_activation(task_id) returns c; the run returns.
LegacyCancelActivationReturns ==
    /\ legacy_pc = "cancelling"
    /\ \E c \in CancelResults :
        /\ legacy_cancel_result' = c
        /\ legacy_result' = legacy_exit_result(legacy_exit_path, c)
    /\ legacy_pc' = "done"
    /\ UNCHANGED << legacy_task_id, legacy_timeout, legacy_poll_interval,
                    legacy_clock, legacy_exit_path, legacy_poll_error,
                    legacy_sms_calls, legacy_cancel_calls >>

\* ------------------------------------------------------------------------
\* SmsSolverService over SmsRetryableProvider
\* ------------------------------------------------------------------------

\* The decorator the service is built over.
SvcProvider ==
    /\ call_pc = "idle"
    /\ call_op = "none"
    /\ retry_config \in ConcConfigs
    /\ on_retry = FALSE
    /\ backoff = build_strategy(retry_config)
    /\ inner_calls = 0
    /\ inner_result = NoResponse
    /\ sleeps = << >>
    /\ callback_calls = << >>
    /\ call_result = Pending

\* SmsSolverService::new(SmsRetryableProvider::with_config(inner, config), _),
\* with one of the dial code tables.
SvcInit ==
    /\ PollInit
    /\ SvcProvider
    /\ GnInit
    /\ blacklisted_dial_codes = {}
    /\ DOMAIN ALPHA2_TO_DIAL_CODE = {"US", "UA", "GB", "TR"}
    /\ ALPHA2_TO_DIAL_CODE["US"] = << "1" >>

\* The decorator's state apart from the position of its call.
call_state ==
    << call_op, retry_config, on_retry, backoff, inner_calls, inner_result,
       sleeps, callback_calls, call_result >>

\* The polling run's state apart from its clock.
run_state ==
    << pc, entry, task_id, timeout, poll_interval, caller_token, poll_count,
       elapsed, exit_path, poll_error, sms_calls, last_response,
       not_yet_count, transient_count, cancel_calls, cancel_result,
       cancelled_at_call, raised_at, result >>

\* get_number calls self.provider.get_phone_number: the decorated operation.
Svc_get_number ==
    /\ pc = "idle"
    /\ get_number
    /\ Retryable_get_phone_number
    /\ UNCHANGED poll_vars

\* The polling run's own steps; the service makes one call at a time.
Svc_wait_for_sms_code ==
    gn_pc = "idle" /\ wait_for_sms_code /\ UNCHANGED << retry_vars, gn_vars >>

Svc_wait_for_sms_code_cancellable ==
    /\ gn_pc = "idle"
    /\ wait_for_sms_code_cancellable
    /\ UNCHANGED << retry_vars, gn_vars >>

Svc_RaiseCancel ==
    gn_pc = "idle" /\ RaiseCancel /\ UNCHANGED << retry_vars, gn_vars >>

Svc_LoopCheck == LoopCheck /\ UNCHANGED << retry_vars, gn_vars >>

Svc_TimeoutCheck == TimeoutCheck /\ UNCHANGED << retry_vars, gn_vars >>

Svc_Sleep == Sleep /\ UNCHANGED << retry_vars, gn_vars >>

\* self.provider.get_sms_code(task_id) enters the decorator.
Svc_get_sms_code ==
    /\ pc = "polling"
    /\ Retryable_get_sms_code
    /\ UNCHANGED << poll_vars, gn_vars >>

\* self.provider.cancel_activation(task_id) enters the decorator.
Svc_cancel_activation ==
    /\ pc = "cancelling"
    /\ Retryable_cancel_activation
    /\ UNCHANGED << poll_vars, gn_vars >>

\* The inner operation returns to the decorator; the time d this invocation
\* took passes for the polling run that awaits the decorated call.
Svc_InnerReturns ==
    /\ InnerReturns
    /\ \E d \in 0..MaxLatency :
          clock' = IF pc = "polling" THEN clock + d ELSE clock
    /\ UNCHANGED << run_state, gn_vars >>

\* The decorator's sleep ends; the time it took passes for the polling run.
Svc_RetrySleepDone ==
    /\ RetrySleepDone
    /\ clock' = IF pc = "polling" THEN clock + sleeps[Len(sleeps)] ELSE clock
    /\ UNCHANGED << run_state, gn_vars >>

\* The decorated call returns its result to the service.
Svc_GetPhoneNumberReturns ==
    /\ call_pc = "done" /\ call_op = "get_phone_number"
    /\ PhoneNumberReturns(call_result)
    /\ call_pc' = "idle"
    /\ UNCHANGED << call_state, poll_vars >>

\* The time of the call has passed with its invocations and its sleeps.
Svc_GetSmsCodeReturns ==
    /\ call_pc = "done" /\ call_op = "get_sms_code"
    /\ PollReturns(call_result, 0)
    /\ call_pc' = "idle"
    /\ UNCHANGED << call_state, gn_vars >>

Svc_CancelActivationReturns ==
    /\ call_pc = "done" /\ call_op = "cancel_activation"
    /\ CleanupReturns(call_result)
    /\ call_pc' = "idle"
    /\ UNCHANGED << call_state, gn_vars >>

\* ------------------------------------------------------------------------
\* Specifications
\* ------------------------------------------------------------------------

vars ==
    << poll_vars, retry_vars, conc_vars, gn_vars, cls_vars, client_vars,
       cfg_vars, num_vars, legacy_vars >>

\* The state outside a polling run, outside a decorated call, and outside
\* the concurrent calls.
\* The parts of the state that belong to the pure operations.
other_vars == << cls_vars, client_vars, cfg_vars, num_vars, legacy_vars >>

outside_poll == << retry_vars, conc_vars, gn_vars, other_vars >>

outside_retry == << poll_vars, conc_vars, gn_vars, other_vars >>

outside_conc == << poll_vars, retry_vars, gn_vars, other_vars >>

outside_get_number == << poll_vars, retry_vars, conc_vars, other_vars >>

service_vars == << poll_vars, retry_vars, conc_vars, gn_vars, legacy_vars >>

outside_classify == << service_vars, client_vars, cfg_vars, num_vars >>

outside_client == << service_vars, cls_vars, cfg_vars, num_vars >>

outside_config == << service_vars, cls_vars, client_vars, num_vars >>

outside_number == << service_vars, cls_vars, client_vars, cfg_vars >>

\* No value is classified, no client call is made, no configuration is
\* built, no number is parsed.
OthersParked ==
    ClsParked /\ ClientParked /\ CfgParked /\ NumParked /\ LegacyParked

Init == PollInit /\ RetryParked /\ ConcParked /\ GnParked /\ OthersParked

\* The state in which RetrySpec starts: a decorator, no polling run.
RetrySpecInit ==
    PollParked /\ RetryInit /\ ConcParked /\ GnParked /\ OthersParked

\* The shared decorator of the concurrent calls.
ConcProvider ==
    /\ call_pc = "parked"
    /\ call_op = "none"
    /\ retry_config \in ConcConfigs
    /\ on_retry = FALSE
    /\ backoff = build_strategy(retry_config)
    /\ inner_calls = 0
    /\ inner_result = NoResponse
    /\ sleeps = << >>
    /\ callback_calls = << >>
    /\ call_result = Pending

ConcSpecInit ==
    PollParked /\ ConcProvider /\ ConcInit /\ GnParked /\ OthersParked

GetNumberSpecInit ==
    PollParked /\ RetryParked /\ ConcParked /\ GnInit /\ OthersParked

\* The state in which no run, call or get_number is in progress.
ServiceParked ==
    PollParked /\ RetryParked /\ ConcParked /\ GnParked /\ LegacyParked

ClassifySpecInit ==
    ServiceParked /\ ClsInit /\ ClientParked /\ CfgParked /\ NumParked

ClientSpecInit ==
    ServiceParked /\ ClsParked /\ ClientInit /\ CfgParked /\ NumParked

ConfigSpecInit ==
    ServiceParked /\ ClsParked /\ ClientParked /\ CfgInit /\ NumParked

NumberSpecInit ==
    ServiceParked /\ ClsParked /\ ClientParked /\ CfgParked /\ NumInit

Next ==
    \/ wait_for_sms_code /\ UNCHANGED outside_poll
    \/ wait_for_sms_code_cancellable /\ UNCHANGED outside_poll
    \/ RaiseCancel /\ UNCHANGED outside_poll
    \/ LoopCheck /\ UNCHANGED outside_poll
    \/ TimeoutCheck /\ UNCHANGED outside_poll
    \/ GetSmsCodeReturns /\ UNCHANGED outside_poll
    \/ Sleep /\ UNCHANGED outside_poll
    \/ CancelActivationReturns /\ UNCHANGED outside_poll

\* One polling run of SmsSolverService over a provider.
Spec == Init /\ [][Next]_vars

\* The runtime keeps polling the future and every provider call returns;
\* the caller is free never to cancel.
FairSpec ==
    /\ Spec
    /\ WF_vars((wait_for_sms_code \/ wait_for_sms_code_cancellable)
               /\ UNCHANGED outside_poll)
    /\ WF_vars(PollStep /\ UNCHANGED outside_poll)

RetryNext ==
    \/ Retryable_get_phone_number /\ UNCHANGED outside_retry
    \/ Retryable_get_sms_code /\ UNCHANGED outside_retry
    \/ Retryable_finish_activation /\ UNCHANGED outside_retry
    \/ Retryable_cancel_activation /\ UNCHANGED outside_retry
    \/ InnerReturns /\ UNCHANGED outside_retry
    \/ RetrySleepDone /\ UNCHANGED outside_retry

\* One call on SmsRetryableProvider.
RetrySpec == RetrySpecInit /\ [][RetryNext]_vars

ConcNext ==
    \/ Conc_get_phone_number /\ UNCHANGED outside_conc
    \/ Conc_get_sms_code /\ UNCHANGED outside_conc
    \/ ConcInnerReturns /\ UNCHANGED outside_conc
    \/ ConcSleepDone /\ UNCHANGED outside_conc

\* Several decorated calls on one SmsRetryableProvider, interleaved at the
\* points where a future can be suspended.
ConcSpec == ConcSpecInit /\ [][ConcNext]_vars

GetNumberNext ==
    \/ blacklist_dial_code /\ UNCHANGED outside_get_number
    \/ remove_from_blacklist /\ UNCHANGED outside_get_number
    \/ get_number /\ UNCHANGED outside_get_number
    \/ GetPhoneNumberReturns /\ UNCHANGED outside_get_number

\* One get_number call of SmsSolverService over a provider.
GetNumberSpec == GetNumberSpecInit /\ [][GetNumberNext]_vars

ClassifyNext == Classify /\ UNCHANGED outside_classify

\* The two methods of RetryableError applied to an error value.
ClassifySpec == ClassifySpecInit /\ [][ClassifyNext]_vars

ClientNext ==
    \/ Client_get_phone_number /\ UNCHANGED outside_client
    \/ Client_get_sms_code /\ UNCHANGED outside_client
    \/ Client_set_activation_status /\ UNCHANGED outside_client
    \/ SendRequestReturns /\ UNCHANGED outside_client

\* One operation of SmsActivateClient.
ClientSpec == ClientSpecInit /\ [][ClientNext]_vars

ConfigNext ==
    \/ Preset /\ UNCHANGED outside_config
    \/ with_timeout /\ UNCHANGED outside_config
    \/ with_poll_interval /\ UNCHANGED outside_config
    \/ Validate /\ UNCHANGED outside_config
    \/ TryBuild /\ UNCHANGED outside_config

\* A configuration is set up and checked.
ConfigSpec == ConfigSpecInit /\ [][ConfigNext]_vars

NumberNext == from_full_number /\ UNCHANGED outside_number

\* Number::from_full_number applied to a full number and a dial code.
NumberSpec == NumberSpecInit /\ [][NumberNext]_vars

\* The state outside the service and its decorator.
outside_service == << conc_vars, other_vars >>

ServiceSpecInit == SvcInit /\ ConcParked /\ OthersParked

ServiceNext ==
    \/ Svc_get_number /\ UNCHANGED outside_service
    \/ Svc_wait_for_sms_code /\ UNCHANGED outside_service
    \/ Svc_wait_for_sms_code_cancellable /\ UNCHANGED outside_service
    \/ Svc_RaiseCancel /\ UNCHANGED outside_service
    \/ Svc_LoopCheck /\ UNCHANGED outside_service
    \/ Svc_TimeoutCheck /\ UNCHANGED outside_service
    \/ Svc_Sleep /\ UNCHANGED outside_service
    \/ Svc_get_sms_code /\ UNCHANGED outside_service
    \/ Svc_cancel_activation /\ UNCHANGED outside_service
    \/ Svc_InnerReturns /\ UNCHANGED outside_service
    \/ Svc_RetrySleepDone /\ UNCHANGED outside_service
    \/ Svc_GetPhoneNumberReturns /\ UNCHANGED outside_service
    \/ Svc_GetSmsCodeReturns /\ UNCHANGED outside_service
    \/ Svc_CancelActivationReturns /\ UNCHANGED outside_service

\* One call on a SmsSolverService built over SmsRetryableProvider.
ServiceSpec == ServiceSpecInit /\ [][ServiceNext]_vars

\* The state outside a run of the service of src/service.rs.
outside_legacy ==
    << poll_vars, retry_vars, conc_vars, gn_vars, cls_vars, client_vars,
       cfg_vars, num_vars >>

LegacySpecInit ==
    /\ PollParked /\ RetryParked /\ ConcParked /\ GnParked
    /\ ClsParked /\ ClientParked /\ CfgParked /\ NumParked
    /\ LegacyInit

LegacyNext ==
    \/ SmsService_wait_for_sms_code /\ UNCHANGED outside_legacy
    \/ LegacyTimeoutCheck /\ UNCHANGED outside_legacy
    \/ LegacyGetSmsCodeReturns /\ UNCHANGED outside_legacy
    \/ LegacySleep /\ UNCHANGED outside_legacy
    \/ LegacyCancelActivationReturns /\ UNCHANGED outside_legacy

\* One polling run of SmsService (src/service.rs) over a provider.
LegacySpec == LegacySpecInit /\ [][LegacyNext]_vars

\* ------------------------------------------------------------------------
\* Properties of the polling loop (checked under Spec and FairSpec)
\* ------------------------------------------------------------------------

\* The get_sms_code calls that have returned.
returned_polls == IF pc = "polling" THEN Len(sms_calls) - 1 ELSE Len(sms_calls)

\* Every get_sms_code call so far answered not-yet or a retryable error.
never_a_code == returned_polls = not_yet_count + transient_count

\* C1: a run that ends in anything other than Ok(code) has made exactly one
\* cancel_activation call, for its task, whether or not the call succeeded;
\* a run that ends in Ok(code) has made none (and no run makes two).
C1_CleanupExactlyOnce ==
    /\ Len(cancel_calls) <= 1
    /\ pc = "done" =>
          IF result.kind = "Ok" THEN cancel_calls = << >>
                                ELSE cancel_calls = << task_id >>

C1_Witness ==
    /\ pc = "done"
    /\ exit_path = "error"
    /\ result.kind = "CancelFailed"
    /\ cancel_calls = << task_id >>

\* C2: when the cleanup cancel_activation call fails, on any of the three
\* exit paths, the run returns CancelFailed with the task id and the cancel
\* error's message, never Cancelled, SmsTimeout or the poll's error; and
\* CancelFailed is returned only when a cancel_activation call failed.
C2_CancelFailureReported ==
    pc = "done" =>
        /\ ~cancel_result.ok =>
              /\ result = CancelFailed(task_id, to_string(cancel_result.error))
              /\ result.kind \notin {"Cancelled", "SmsTimeout", "Provider"}
        /\ result.kind = "CancelFailed" =>
              /\ ~cancel_result.ok
              /\ Len(cancel_calls) = 1

C2_Witness ==
    /\ pc = "done"
    /\ exit_path = "timeout"
    /\ cancel_result = Err([type |-> "MockError", variant |-> "Generic", code |-> "-"])
    /\ result = CancelFailed(task_id, "Mock error: Cancel failed")

\* C3: a run called with an already cancelled token starts no get_sms_code
\* call, makes exactly one cancel_activation call and, when that call
\* succeeds, returns Cancelled with poll_count 0, also when the timeout has
\* already elapsed at the first check.
C3_CancelledBeforeFirstPoll ==
    cancelled_at_call =>
        /\ sms_calls = << >>
        /\ pc = "done" =>
              /\ cancel_calls = << task_id >>
              /\ exit_path = "cancelled"
              /\ cancel_result.ok =>
                    /\ result.kind = "Cancelled"
                    /\ result.poll_count = 0
                    /\ result.task_id = task_id

C3_Witness ==
    /\ pc = "done"
    /\ cancelled_at_call
    /\ timeout = 0
    /\ result.kind = "Cancelled"

\* The premise of C4: no code (and no permanent error) so far, no
\* cancellation.
C4_Premise == never_a_code /\ ~is_cancelled

C4_AtTimeout ==
    (pc = "done" /\ C4_Premise) =>
        /\ result.kind \in {"SmsTimeout", "CancelFailed"}
        /\ exit_path = "timeout"
        /\ elapsed >= timeout
        /\ cancel_calls = << task_id >>
        /\ result.kind = "SmsTimeout" =>
              /\ result.elapsed >= timeout
              /\ result.timeout = timeout
              /\ cancel_result.ok

\* C4: when the provider never returns a code and no cancellation is
\* raised, the run terminates, and it ends at a loop check with
\* elapsed >= timeout, in SmsTimeout (CancelFailed when the cleanup fails)
\* that reports that elapsed and the configured timeout, after exactly one
\* cancel_activation call.
C4_TimeoutTermination ==
    /\ <>(pc = "done" \/ ~C4_Premise)
    /\ []C4_AtTimeout

C4_Witness ==
    /\ pc = "done"
    /\ entry = "wait_for_sms_code"
    /\ C4_Premise
    /\ result.kind = "SmsTimeout"
    /\ result.elapsed > timeout
    /\ Len(sms_calls) >= 2

\* C5: when the first N get_sms_code calls answered not-yet and call N+1
\* answers a code, the run returns Ok with exactly that code after exactly
\* N+1 get_sms_code calls.
C5_CodeAfterNotYet ==
    (last_response.ok /\ last_response.some /\ transient_count = 0) =>
        /\ pc = "done"
        /\ result = Ok(last_response.code)
        /\ Len(sms_calls) = not_yet_count + 1
        /\ poll_count = not_yet_count + 1

C5_Witness ==
    /\ pc = "done"
    /\ not_yet_count = 2
    /\ transient_count = 0
    /\ result = Ok("123456")
    /\ Len(sms_calls) = 3

\* C6: when a get_sms_code call returns an error that is not retryable, no
\* further poll is issued, cancel_activation is called once, and when it
\* succeeds the run returns Provider with that error as source,
\* is_retryable false and the error's should_retry_operation(), which is
\* is_retryable() (false) for an error type that does not override it.
C6_PermanentPollError ==
    (~last_response.ok /\ ~is_retryable(last_response.error)) =>
        /\ pc \in {"cancelling", "done"}
        /\ Len(sms_calls) = not_yet_count + transient_count + 1
        /\ cancel_calls = << task_id >>
        /\ (pc = "done" /\ cancel_result.ok) =>
              /\ result.kind = "Provider"
              /\ result.source = last_response.error
              /\ result.is_retryable = FALSE
              /\ result.should_retry_operation =
                    should_retry_operation(last_response.error)
              /\ ~overrides_should_retry_operation(last_response.error) =>
                    result.should_retry_operation = FALSE

C6_Witness ==
    /\ pc = "done"
    /\ last_response =
          Err([type |-> "SmsActivateError", variant |-> "SolutionTimeout",
               code |-> "-"])
    /\ result.kind = "Provider"
    /\ result.should_retry_operation

C7_Outcome ==
    /\ pc # "done" => result = Pending
    /\ pc = "done" =>
          /\ result.kind \in {"Ok", "SmsTimeout", "Cancelled", "CancelFailed",
                              "Provider"}
          /\ result.kind = "Provider" =>
                /\ result.is_retryable = FALSE
                /\ ~is_retryable(result.source)
    /\ exit_path = "error" => ~is_retryable(poll_error)

C7_Step ==
    /\ pc = "done" => (pc' = "done" /\ result' = result)
    /\ (pc = "polling" /\ pc' # "polling"
        /\ ~last_response'.ok /\ is_retryable(last_response'.error)) =>
          (pc' = "sleeping" /\ result' = Pending)
    /\ pc = "sleeping" => pc' \in {"sleeping", "check"}

\* C7: a run returns exactly one outcome, one of Ok, SmsTimeout, Cancelled,
\* CancelFailed or Provider with is_retryable false; a retryable poll error
\* never ends the run and is never returned: the loop sleeps and goes back
\* to its checks.
C7_OneTerminalOutcome == []C7_Outcome /\ [][C7_Step]_vars

C7_Witness ==
    /\ pc = "done"
    /\ transient_count >= 1
    /\ ~last_response.ok
    /\ is_retryable(last_response.error)
    /\ result.kind = "SmsTimeout"

\* ------------------------------------------------------------------------
\* Properties of the retry decorator (checked under RetrySpec)
\* ------------------------------------------------------------------------

\* C8: when the first invocation of the inner operation fails with an error
\* that is not retryable, the inner operation is invoked exactly once, with
\* no delay and no on_retry callback, and that error is returned, whatever
\* max_retries is.
C8_NoRetryOfPermanentError ==
    (call_pc \in {"sleeping", "done"} /\ inner_calls = 1
     /\ ~inner_result.ok /\ ~is_retryable(inner_result.error)) =>
        /\ call_pc = "done"
        /\ call_result = inner_result
        /\ sleeps = << >>
        /\ callback_calls = << >>

C8_Witness ==
    /\ call_pc = "done"
    /\ inner_calls = 1
    /\ on_retry
    /\ retry_config.max_retries = 3
    /\ call_result = Err([type |-> "SmsActivateError", variant |-> "Service",
                          code |-> "BadKey"])

\* C9: one decorated call invokes the inner operation at most
\* max_retries + 1 times (3 retries by default); once the budget is spent it
\* returns the error of the last invocation unchanged, and as soon as an
\* invocation succeeds it returns that value with no further invocation.
C9_RetryBudget ==
    /\ RetryConfig_default.max_retries = 3
    /\ call_pc # "parked" =>
          /\ inner_calls <= retry_config.max_retries + 1
          /\ Len(sleeps) <= retry_config.max_retries
          /\ call_pc = "done" => call_result = inner_result
          /\ (call_pc # "inner" /\ inner_result.ok /\ inner_calls >= 1) =>
                call_pc = "done"
          /\ (call_pc # "inner" /\ ~inner_result.ok
              /\ inner_calls = retry_config.max_retries + 1) =>
                call_pc = "done"

C9_Witness ==
    /\ call_pc = "done"
    /\ retry_config.max_retries = 2
    /\ inner_calls = 3
    /\ ~call_result.ok
    /\ is_retryable(call_result.error)

RECURSIVE Pow(_, _)
Pow(b, n) == IF n = 0 THEN 1 ELSE b * Pow(b, n - 1)

Min(a, b) == IF a <= b THEN a ELSE b

\* C10: with min_delay <= max_delay and factor >= 1, the delay slept before
\* retry k (k = 0, 1, ...) is min(max_delay, min_delay * factor^k): the
\* delays are non-decreasing, never above max_delay, never below min_delay.
C10_BackoffDelays ==
    (retry_config.min_delay <= retry_config.max_delay
     /\ retry_config.factor >= 1) =>
        \A k \in 1..Len(sleeps) :
            /\ sleeps[k] = Min(retry_config.max_delay,
                               retry_config.min_delay
                                   * Pow(retry_config.factor, k - 1))
            /\ sleeps[k] <= retry_config.max_delay
            /\ sleeps[k] >= retry_config.min_delay
            /\ k > 1 => sleeps[k - 1] <= sleeps[k]

C10_Witness ==
    /\ Len(sleeps) = 3
    /\ retry_config.factor = 2
    /\ sleeps[1] = retry_config.min_delay
    /\ sleeps[1] < sleeps[2]
    /\ sleeps[2] < sleeps[3]
    /\ sleeps[3] = retry_config.max_delay
    /\ retry_config.min_delay * 4 > retry_config.max_delay

\* The on_retry callback keeps step with the retries: without a callback
\* nothing is recorded; with one, there is one call per delay slept, each
\* with a retryable error and that delay, so that the calls number the
\* inner invocations minus one whenever no sleep is pending.
C11_Counts ==
    call_pc # "parked" =>
        /\ ~on_retry => callback_calls = << >>
        /\ on_retry => Len(callback_calls) = Len(sleeps)
        /\ \A k \in 1..Len(callback_calls) :
              /\ callback_calls[k][2] = sleeps[k]
              /\ is_retryable(callback_calls[k][1])
        /\ (on_retry /\ call_pc \in {"inner", "done"}) =>
              Len(callback_calls) = inner_calls - 1
        /\ (on_retry /\ call_pc = "sleeping") =>
              Len(callback_calls) = inner_calls

\* A step that calls the callback is the step in which an invocation
\* returned a retryable error and the sleep starts: it passes that error
\* and the delay about to be slept, and invokes nothing; a step that starts
\* a sleep calls the callback once.
C11_Step ==
    /\ callback_calls' # callback_calls =>
          /\ on_retry
          /\ call_pc = "inner" /\ call_pc' = "sleeping"
          /\ inner_calls' = inner_calls
          /\ ~inner_result'.ok /\ is_retryable(inner_result'.error)
          /\ callback_calls' =
                Append(callback_calls,
                       << inner_result'.error, sleeps'[Len(sleeps')] >>)
    /\ (on_retry /\ sleeps' # sleeps) =>
          Len(callback_calls') = Len(callback_calls) + 1

\* C11: a set on_retry callback is invoked exactly once per retry, with the
\* retryable error that caused the retry and the delay about to be slept,
\* after the failed invocation and before the next one; it is not invoked
\* when the first invocation succeeds, when the error is not retryable, or
\* for the final error of a spent budget, so the callback invocations of
\* one decorated call number its inner invocations minus one.
C11_CallbackPerRetry == []C11_Counts /\ [][C11_Step]_vars

C11_Witness ==
    /\ call_pc = "done"
    /\ on_retry
    /\ inner_calls = 3
    /\ retry_config.max_retries = 2
    /\ ~call_result.ok
    /\ is_retryable(call_result.error)
    /\ Len(callback_calls) = 2
    /\ callback_calls[1][1] # callback_calls[2][1]
    /\ callback_calls[1][2] < callback_calls[2][2]

\* C12: finish_activation and cancel_activation on the decorator invoke the
\* inner operation exactly once and return its result unchanged, with no
\* retry, no delay and no on_retry callback, also when the inner call fails
\* with a retryable error.
C12_PassThrough ==
    call_op \in {"finish_activation", "cancel_activation"} =>
        /\ call_pc \in {"inner", "done"}
        /\ inner_calls = 1
        /\ sleeps = << >>
        /\ callback_calls = << >>
        /\ call_pc = "done" => call_result = inner_result

C12_Witness ==
    /\ call_pc = "done"
    /\ call_op = "cancel_activation"
    /\ on_retry
    /\ retry_config.max_retries >= 1
    /\ inner_calls = 1
    /\ ~call_result.ok
    /\ is_retryable(call_result.error)

\* ------------------------------------------------------------------------
\* Properties of concurrent decorated calls (checked under ConcSpec)
\* ------------------------------------------------------------------------

\* Every call counts its own attempts and follows the schedule of the
\* configuration from its start: its k-th delay is the k-th delay of a
\* call made alone, it sleeps once per failed invocation it retries, and
\* it gives up on a retryable error exactly when it has itself made
\* max_retries + 1 invocations.
C13_OwnSchedule ==
    \A c \in Calls :
        /\ c_inner_calls[c] <= retry_config.max_retries + 1
        /\ \A k \in 1..Len(c_sleeps[c]) :
              c_sleeps[c][k] =
                  Min(retry_config.max_delay,
                      retry_config.min_delay * Pow(retry_config.factor, k - 1))
        /\ c_pc[c] \in {"inner", "done"} =>
              Len(c_sleeps[c]) = c_inner_calls[c] - 1
        /\ c_pc[c] = "sleeping" => Len(c_sleeps[c]) = c_inner_calls[c]
        /\ (c_pc[c] = "done" /\ ~c_result[c].ok
            /\ is_retryable(c_result[c].error)) =>
              c_inner_calls[c] = retry_config.max_retries + 1

\* A step in which a call neither moves nor invokes anything leaves the
\* backoff of that call as it was.
C13_Step ==
    \A c \in Calls :
        (c_pc'[c] = c_pc[c] /\ c_inner_calls'[c] = c_inner_calls[c]) =>
            /\ c_backoff'[c] = c_backoff[c]
            /\ c_sleeps'[c] = c_sleeps[c]

\* C13: decorated operations that run concurrently on one
\* SmsRetryableProvider each have their own attempt counter and delay
\* schedule: failures and retries of one never reduce the retry budget nor
\* change the next delay of another, under every interleaving.
C13_IndependentRetryState == []C13_OwnSchedule /\ [][C13_Step]_vars

C13_Witness ==
    /\ retry_config.max_retries = 2
    /\ c_pc[1] = "done"
    /\ ~c_result[1].ok
    /\ is_retryable(c_result[1].error)
    /\ c_inner_calls[1] = 3
    /\ Len(c_sleeps[1]) = 2
    /\ c_pc[2] = "sleeping"
    /\ c_inner_calls[2] = 1
    /\ c_sleeps[2] = << retry_config.min_delay >>

\* ------------------------------------------------------------------------
\* Properties of get_number (checked under GetNumberSpec)
\* ------------------------------------------------------------------------

\* C14: when provider.get_phone_number fails with error e, get_number
\* returns Provider with source e and with both flags equal to the answers
\* of e, is_retryable and should_retry_operation, for every combination of
\* the two; the service-level error answers the same.
C14_FlagsCarriedForward ==
    (gn_pc = "done" /\ ~gn_provider_result.ok) =>
        /\ gn_result.kind = "Provider"
        /\ gn_result.source = gn_provider_result.error
        /\ gn_result.is_retryable = is_retryable(gn_provider_result.error)
        /\ gn_result.should_retry_operation =
              should_retry_operation(gn_provider_result.error)
        /\ SmsSolverServiceError_is_retryable(gn_result) =
              is_retryable(gn_provider_result.error)
        /\ SmsSolverServiceError_should_retry_operation(gn_result) =
              should_retry_operation(gn_provider_result.error)

C14_Witness ==
    /\ gn_pc = "done"
    /\ ~gn_provider_result.ok
    /\ gn_provider_result.error.type = "SmsActivateError"
    /\ gn_result.kind = "Provider"
    /\ ~gn_result.is_retryable
    /\ gn_result.should_retry_operation

\* The characters of the strings given to the program here that are not
\* white space: the letters, the digits, the signs, and the letter e with
\* an acute accent.
printing ==
    { "A", "B", "C", "D", "E", "F", "G", "H", "I", "J", "K", "L", "M", "N",
      "O", "P", "Q", "R", "S", "T", "U", "V", "W", "X", "Y", "Z",
      "a", "b", "c", "d", "e", "f", "g", "h", "i", "j", "k", "l", "m", "n",
      "o", "p", "q", "r", "s", "t", "u", "v", "w", "x", "y", "z",
      "0", "1", "2", "3", "4", "5", "6", "7", "8", "9",
      "+", ":", "_", ".", "'", "\"", "<", ">", "{", "}", "U+00E9" }

RECURSIVE drop_leading(_, _)
drop_leading(s, chars) ==
    IF s # << >> /\ Head(s) \in chars THEN drop_leading(Tail(s), chars) ELSE s

\* s from its first to its last character that is not white space.
stripped(s) ==
    LET shown == { i \in 1..Len(s) : s[i] \in printing }
    IN  IF shown = {} THEN << >>
        ELSE SubSeq(s, CHOOSE i \in shown : \A j \in shown : i <= j,
                       CHOOSE i \in shown : \A j \in shown : i >= j)

\* The full number without the white space around it and then without
\* the '+' signs in front.
without_plus(s) == drop_leading(stripped(s), {"+"})

\* The full number without one leading '+'.
without_one_plus(s) == IF s # << >> /\ Head(s) = "+" THEN Tail(s) ELSE s

has_prefix(s, d) == Len(s) >= Len(d) /\ SubSeq(s, 1, Len(d)) = d

\* s after its first Len(d) characters.
after_prefix(s, d) == SubSeq(s, Len(d) + 1, Len(s))

\* A valid national number: 4 to 14 digits, the first not 0.
valid_national(s) ==
    /\ Len(s) >= 4
    /\ Len(s) <= 14
    /\ \A i \in 1..Len(s) : s[i] \in Digit
    /\ s[1] # "0"

\* The digits of the country's entry in the dial code table; none when
\* the table has no entry for the country.
table_dial_code ==
    IF alpha2(gn_country) \in DOMAIN ALPHA2_TO_DIAL_CODE
    THEN without_plus(ALPHA2_TO_DIAL_CODE[alpha2(gn_country)])
    ELSE << >>

\* The country has a dial code: an entry that holds digits.
has_dial_code ==
    /\ table_dial_code # << >>
    /\ \A i \in 1..Len(table_dial_code) : table_dial_code[i] \in Digit

\* What get_number returned after a successful provider.get_phone_number,
\* when the dial code is looked for at the front of digits and rest is the
\* national number: InvalidDialCode when the country has no dial code,
\* NumberParse when digits does not start with the dial code or rest is
\* not a valid national number, both not retryable on either axis, and
\* otherwise the provider's task_id and full_number, the country's dial
\* code, and rest as number.
number_result(digits, rest) ==
    (gn_pc = "done" /\ gn_provider_result.ok) =>
        IF ~has_dial_code
        THEN /\ gn_result.kind = "InvalidDialCode"
             /\ ~SmsSolverServiceError_is_retryable(gn_result)
             /\ ~SmsSolverServiceError_should_retry_operation(gn_result)
        ELSE IF ~has_prefix(digits, table_dial_code) \/ ~valid_national(rest)
        THEN /\ gn_result.kind = "NumberParse"
             /\ gn_result.full_number = gn_provider_result.full_number
             /\ ~SmsSolverServiceError_is_retryable(gn_result)
             /\ ~SmsSolverServiceError_should_retry_operation(gn_result)
        ELSE /\ gn_result.kind = "Ok"
             /\ gn_result.task_id = gn_provider_result.task_id
             /\ gn_result.full_number = gn_provider_result.full_number
             /\ gn_result.dial_code = table_dial_code
             /\ gn_result.number = rest
             /\ gn_result.country = gn_country

\* The statement of C15 as it was made: the full number is taken without
\* one leading '+', and the number is what follows the dial code.
C15_Original ==
    LET digits == IF gn_provider_result.ok /\ gn_pc = "done"
                  THEN without_one_plus(gn_provider_result.full_number)
                  ELSE << >>
    IN  number_result(digits, after_prefix(digits, table_dial_code))

\* C15: after a successful provider.get_phone_number, get_number returns
\* InvalidDialCode when the country has no dial code, NumberParse when the
\* full number, after trimming the white space around it and removing
\* every leading '+', does not start with the country's dial code or the
\* rest, after trimming the white space around it, is not a valid
\* national number, both not retryable on either axis, and otherwise a
\* result with the provider's task_id and full_number, the country's dial
\* code, and that trimmed rest as number.
C15_NumberResult ==
    LET digits == IF gn_provider_result.ok /\ gn_pc = "done"
                  THEN without_plus(gn_provider_result.full_number)
                  ELSE << >>
    IN  number_result(digits, stripped(after_prefix(digits, table_dial_code)))

C15_Witness ==
    /\ gn_pc = "done"
    /\ gn_country = "UKR"
    /\ gn_provider_result.ok
    /\ gn_provider_result.full_number = << "3", "8", "0", " " >> \o National
    /\ gn_result.kind = "Ok"
    /\ gn_result.number = National
    /\ gn_result.task_id = "task456"

\* ------------------------------------------------------------------------
\* Properties of the error classification (checked under ClassifySpec)
\* ------------------------------------------------------------------------

\* C16: for SmsSolverServiceError, is_retryable() is false for every kind
\* but Provider, which returns its stored is_retryable flag;
\* should_retry_operation() is true for SmsTimeout, false for Cancelled,
\* CancelFailed, InvalidDialCode, NumberParse, DialCodeBlacklisted and
\* NoAvailableDialCodes, and the stored flag for Provider.
C16_ServiceErrorFlags ==
    (cls_pc = "done" /\ is_service_error(cls_error)) =>
        /\ cls_error.kind = "Provider" =>
              /\ cls_is_retryable = cls_error.is_retryable
              /\ cls_should_retry_operation = cls_error.should_retry_operation
        /\ cls_error.kind # "Provider" => ~cls_is_retryable
        /\ cls_error.kind = "SmsTimeout" => cls_should_retry_operation
        /\ cls_error.kind \in {"Cancelled", "CancelFailed", "InvalidDialCode",
                                "NumberParse", "DialCodeBlacklisted",
                                "NoAvailableDialCodes"} =>
              ~cls_should_retry_operation

C16_Witness ==
    /\ cls_pc = "done"
    /\ cls_error.kind = "SmsTimeout"
    /\ ~cls_is_retryable
    /\ cls_should_retry_operation

\* Whether an error value stands for no-numbers-available.
is_no_numbers(x) ==
    IF is_service_error(x) THEN x.kind = "NoNumbersAvailable"
    ELSE IF x.type = "SmsActivateErrorCode" THEN x.code = "NoNumbers"
    ELSE x.type = "SmsActivateError" /\ x.variant = "Service"
         /\ x.code = "NoNumbers"

\* C17: a no-numbers-available error is classified retryable:
\* is_retryable() returns true for SmsActivateErrorCode::NoNumbers, for
\* SmsActivateError::Service wrapping it, and for
\* SmsSolverServiceError::NoNumbersAvailable.
C17_NoNumbersRetryable ==
    (cls_pc = "done" /\ is_no_numbers(cls_error)) => cls_is_retryable

\* ------------------------------------------------------------------------
\* Properties of SmsActivateClient (checked under ClientSpec)
\* ------------------------------------------------------------------------

\* The response text without the white space around it.
response_body == stripped(client_response.text)

\* C18: response text that is not a known error code is classified not
\* retryable on both axes: an error-shaped token that is not recognised
\* becomes SmsActivateErrorCode::Unknown, a body that is neither an error
\* nor the expected JSON becomes DeserializeJson, a set-status reply that
\* is not recognised becomes FailedToParseSetStatusResponse, and all three
\* answer false to is_retryable() and to should_retry_operation().
C18_UnknownTextNotRetryable ==
    (client_pc = "done" /\ client_response # NoResponse /\ client_response.ok) =>
        /\ response_body \in {Text.NO_BALANCE, Text.BANNED, Text.WRONG_MAX_PRICE,
                      Text.WRONG_MAX_PRICE_X,
                      Text.NO_NUMBERS \o << "U+00E9" >>} =>
              client_result = Err(ServiceError("Unknown"))
        /\ (client_op # "set_activation_status"
            /\ response_body \in {Text.STATUS_OK, Text.HTML, Text.ACCESS_X, Text.ACCESS_CANCEL,
                          << "U+00E9" >> \o Text.NO_NUMBERS, << >>}) =>
              client_result = Err(ClientError("DeserializeJson"))
        /\ (client_op = "get_phone_number" /\ response_body = Text.EMPTY_OBJECT) =>
              client_result = Err(ClientError("DeserializeJson"))
        /\ (client_op = "set_activation_status"
            /\ response_body \in {Text.STATUS_OK, Text.HTML, Text.ACCESS_X, Text.EMPTY_OBJECT,
                          << "U+00E9" >> \o Text.ACCESS_CANCEL, << >>}) =>
              client_result = Err(ClientError("FailedToParseSetStatusResponse"))
        /\ (/\ ~client_result.ok
            /\ \/ client_result.error.code = "Unknown"
               \/ client_result.error.variant \in
                     {"DeserializeJson", "FailedToParseSetStatusResponse"}) =>
              /\ ~is_retryable(client_result.error)
              /\ ~should_retry_operation(client_result.error)
              /\ ~Code_is_retryable("Unknown")
              /\ ~Code_should_retry_operation("Unknown")

C18_Witness ==
    /\ client_pc = "done"
    /\ client_op = "get_phone_number"
    /\ client_response # NoResponse
    /\ client_response.ok
    /\ client_response.text = << "U+00A0" >> \o Text.NO_BALANCE \o << "\r", "\n" >>
    /\ client_result = Err(ServiceError("Unknown"))

\* ------------------------------------------------------------------------
\* Properties of SmsSolverServiceConfig (checked under ConfigSpec)
\* ------------------------------------------------------------------------

\* C19: validate and try_build return Ok exactly when timeout >= 10 s and
\* poll_interval >= 100 ms and poll_interval < timeout; otherwise they
\* return the first failing check in the order TimeoutTooShort,
\* PollIntervalTooShort, PollIntervalExceedsTimeout; the presets fast
\* (60 s / 1 s), balanced (120 s / 3 s, the default) and patient
\* (300 s / 5 s) validate.
C19_ConfigValidation ==
    /\ fast = [timeout |-> 60 * 1000, poll_interval |-> 1 * 1000]
    /\ balanced = [timeout |-> 120 * 1000, poll_interval |-> 3 * 1000]
    /\ patient = [timeout |-> 300 * 1000, poll_interval |-> 5 * 1000]
    /\ SmsSolverServiceConfig_default = balanced
    /\ cfg_pc = "done" =>
          LET t == cfg_config.timeout
              i == cfg_config.poll_interval
          IN  /\ cfg_result.ok <=> (t >= 10 * 1000 /\ i >= 100 /\ i < t)
              /\ t < 10 * 1000 => cfg_result.kind = "TimeoutTooShort"
              /\ (t >= 10 * 1000 /\ i < 100) =>
                    cfg_result.kind = "PollIntervalTooShort"
              /\ (t >= 10 * 1000 /\ i >= 100 /\ i >= t) =>
                    cfg_result.kind = "PollIntervalExceedsTimeout"
              /\ cfg_config \in {fast, balanced, patient} => cfg_result.ok
              /\ (cfg_entry = "try_build" /\ cfg_result.ok) =>
                    cfg_result.config = cfg_config

C19_Witness ==
    /\ cfg_pc = "done"
    /\ cfg_entry = "try_build"
    /\ cfg_config.timeout = 10000
    /\ cfg_config.poll_interval = 10000
    /\ cfg_result.kind = "PollIntervalExceedsTimeout"

\* ------------------------------------------------------------------------
\* Properties of Number::from_full_number (checked under NumberSpec)
\* ------------------------------------------------------------------------

\* The round trip: when the full number is the dial code followed by a
\* valid number n, with or without one '+' in front, the result is Ok(n).
round_trip ==
    \A n \in {m \in NumNationals : valid_national(m)} :
        num_full \in {num_dial \o n, << "+" >> \o num_dial \o n} =>
            num_result = ParseOk(n)

\* The statement of C20 as it was made: the round trip, and
\* MissingDialCode whenever the full number without one leading '+' does
\* not start with the dial code.
C20_Original ==
    num_pc = "done" =>
        /\ round_trip
        /\ ~has_prefix(without_one_plus(num_full), num_dial) =>
              num_result = ParseErr("MissingDialCode")

\* C20: for every valid Number n (4 to 14 digits, not starting with 0) and
\* every valid DialCode d, from_full_number(d followed by n, d) returns
\* Ok(n), with or without a leading '+' on the full number; and it
\* returns MissingDialCode whenever the full number, after trimming the
\* white space around it and removing every leading '+', does not start
\* with d.
C20_RoundTrip ==
    num_pc = "done" =>
        /\ round_trip
        /\ ~has_prefix(without_plus(num_full), num_dial) =>
              num_result = ParseErr("MissingDialCode")
        /\ has_prefix(without_plus(num_full), num_dial) =>
              num_result # ParseErr("MissingDialCode")

C20_Witness ==
    /\ num_pc = "done"
    /\ num_dial = << "3", "8", "0" >>
    /\ num_full = << "+", "3", "8", "0", "5" >> \o Repeat("7", 13)
    /\ num_result = ParseOk(<< "5" >> \o Repeat("7", 13))

\* ------------------------------------------------------------------------
\* C21
\* ------------------------------------------------------------------------

\* The token was cancelled while a wait_for_sms_code_cancellable run was
\* under way.
raised_during_run ==
    /\ entry = "wait_for_sms_code_cancellable"
    /\ raised_at.pc \notin {"never", "idle"}

\* get_sms_code calls started since the token was cancelled.
calls_after_raise == Len(sms_calls) - raised_at.calls

\* Every poll of the run so far returned Ok(None) or a retryable error.
only_continue_polls == poll_outcome(last_response) = "continue"

cancelled_outcome == result.kind \in {"Cancelled", "CancelFailed"}

\* C21, as stated: once the token is cancelled during a
\* wait_for_sms_code_cancellable run, at most one get_sms_code call starts
\* afterwards (one whose checks had passed), and when the polls return
\* not-yet or retryable errors the run ends with Cancelled or CancelFailed.
C21_Original ==
    raised_during_run =>
        /\ calls_after_raise <= 1
        /\ calls_after_raise = 1 => raised_at.pc = "checked"
        /\ (pc = "done" /\ only_continue_polls) => cancelled_outcome

\* The iteration's cancellation check had not yet run when the token was
\* cancelled, and the run was still in its loop.
raised_before_a_check == raised_at.pc \in {"check", "polling", "sleeping"}

C21_Outcome ==
    raised_during_run =>
        /\ calls_after_raise <= 1
        /\ calls_after_raise = 1 => raised_at.pc = "checked"
        /\ (pc = "done" /\ only_continue_polls /\ raised_before_a_check) =>
              /\ calls_after_raise = 0
              /\ exit_path = "cancelled"
              /\ cancelled_outcome
        /\ (pc = "done" /\ only_continue_polls /\ raised_at.pc = "checked") =>
              \/ /\ calls_after_raise = 1
                 /\ exit_path = "cancelled"
                 /\ cancelled_outcome
              \/ /\ calls_after_raise = 0
                 /\ exit_path = "timeout"
                 /\ result.kind \in {"SmsTimeout", "CancelFailed"}
        /\ (pc = "done" /\ raised_at.pc = "cancelling") =>
              exit_path \in {"timeout", "error"}

\* A cancellation check that sees the token cancelled starts the cleanup.
C21_Step ==
    (pc = "check" /\ is_cancelled /\ pc' # pc) =>
        /\ pc' = "cancelling"
        /\ exit_path' = "cancelled"
        /\ sms_calls' = sms_calls

\* C21, amended: once the token is cancelled during a
\* wait_for_sms_code_cancellable run, at most one get_sms_code call starts
\* afterwards, and only in an iteration whose cancellation check had already
\* passed; the next cancellation check the run reaches ends it with Cancelled
\* or CancelFailed. A run whose iteration had already passed its
\* cancellation check may still end that iteration with the timeout exit,
\* and a run already in its cleanup keeps the exit it had chosen.
C21_CancelAtNextCheck == []C21_Outcome /\ [][C21_Step]_vars

\* The token is cancelled between the checks and the call; the call returns
\* Ok(None) and the run ends with Cancelled.
C21_Witness ==
    /\ pc = "done"
    /\ raised_during_run
    /\ raised_at.pc = "checked"
    /\ calls_after_raise = 1
    /\ last_response = NotYet
    /\ result.kind = "Cancelled"

\* ------------------------------------------------------------------------
\* C22
\* ------------------------------------------------------------------------

\* get_sms_code calls that have returned, counted from their results.
polls_returned ==
    not_yet_count + transient_count
        + (IF poll_outcome(last_response) # "continue" THEN 1 ELSE 0)

\* cancel_activation calls that have returned.
cancels_returned == IF cancel_result = NoResponse THEN 0 ELSE 1

\* Provider calls started and not yet returned.
outstanding_calls ==
    (Len(sms_calls) - polls_returned) + (Len(cancel_calls) - cancels_returned)

C22_OneOutstanding ==
    /\ outstanding_calls \in {0, 1}
    /\ outstanding_calls = 1 <=> pc \in {"polling", "cancelling"}

C22_Step ==
    \* a call starts only from an iteration whose two checks passed, with
    \* no other call outstanding
    /\ sms_calls' # sms_calls =>
          /\ pc = "checked" /\ pc' = "polling"
          /\ clock < timeout
          /\ outstanding_calls = 0
          /\ sms_calls' = Append(sms_calls, task_id)
    \* the timeout check is reached only through a cancellation check that
    \* saw the token not cancelled
    /\ (pc' = "checked" /\ pc # "checked") => (pc = "check" /\ ~is_cancelled)
    \* an iteration that observes cancellation or the timeout starts no poll
    /\ (pc = "check" /\ is_cancelled /\ pc' # pc) =>
          (pc' = "cancelling" /\ sms_calls' = sms_calls)
    /\ (pc = "checked" /\ clock >= timeout /\ pc' # pc) =>
          (pc' = "cancelling" /\ sms_calls' = sms_calls)
    \* after a call returns without ending the run, poll_interval is slept
    \* before the next iteration's checks
    /\ (pc = "polling" /\ pc' # pc) => pc' \in {"sleeping", "done", "cancelling"}
    /\ (pc = "sleeping" /\ pc' # pc) =>
          /\ pc' = "check"
          /\ clock' = clock + poll_interval
          /\ sms_calls' = sms_calls
    /\ (pc' = "check" /\ pc # "check") =>
          (pc = "sleeping" \/ (pc = "idle" /\ sms_calls = << >>))

\* C22: within one polling run at most one provider call is outstanding;
\* get_sms_code call N+1 starts only after call N has returned and
\* poll_interval has been slept; every call is preceded in its iteration by
\* a cancellation check and a timeout check that both passed.
C22_SequentialPolls == []C22_OneOutstanding /\ [][C22_Step]_vars

\* A second poll is in flight, after the first returned and the sleep.
C22_Witness ==
    /\ pc = "polling"
    /\ Len(sms_calls) = 2
    /\ polls_returned = 1
    /\ clock >= poll_interval
    /\ clock < timeout

\* ------------------------------------------------------------------------
\* C23
\* ------------------------------------------------------------------------

\* C23: with a provider whose blacklist contains the dial code d,
\* is_dial_code_supported(d) is false and get_number never returns Ok with a
\* result whose dial_code is d.
C23_BlacklistedNotUsed ==
    \A d \in blacklisted_dial_codes :
        (DialCode_new(d).ok /\ DialCode_new(d).value = d) =>
            /\ ~is_dial_code_supported(blacklisted_dial_codes, d)
            /\ ~(gn_pc = "done" /\ gn_result.kind = "Ok"
                                /\ gn_result.dial_code = d)

\* ------------------------------------------------------------------------
\* C24
\* ------------------------------------------------------------------------

\* The token the loop reads is never cancelled: the run is a
\* wait_for_sms_code run, whose token nobody else holds, or a
\* wait_for_sms_code_cancellable run whose token has not been cancelled.
own_token_run == entry = "wait_for_sms_code"

quiet_token_run == entry = "wait_for_sms_code_cancellable" /\ ~caller_token

\* What a run whose token is never cancelled can show: no cancelled exit,
\* and one of the other outcomes.
no_cancel_outcome ==
    /\ exit_path \in {"none", "timeout", "error"}
    /\ result.kind \in {"Pending", "Ok", "SmsTimeout", "Provider", "CancelFailed"}
    /\ Len(cancel_calls) = (IF exit_path = "none" THEN 0 ELSE 1)
    /\ pc = "done" =>
          CASE exit_path = "none" -> result = Ok(last_response.code)
            [] exit_path = "timeout" ->
                 result = exit_result("timeout", cancel_result)
            [] exit_path = "error" ->
                 result = exit_result("error", cancel_result)

C24_Outcome ==
    /\ own_token_run => no_cancel_outcome
    /\ quiet_token_run => no_cancel_outcome

\* The cancellation check of such a run always passes, and changes nothing.
C24_Step ==
    ((own_token_run \/ (quiet_token_run /\ ~caller_token'))
        /\ pc = "check" /\ pc' # pc) =>
        /\ pc' = "checked"
        /\ UNCHANGED << clock, poll_count, elapsed, exit_path, sms_calls,
                        cancel_calls, result >>

\* C24: wait_for_sms_code(task) behaves like
\* wait_for_sms_code_cancellable(task, token) with a token that is never
\* cancelled: the cancellation check always passes, the provider calls and
\* the result are those of the loop without its cancelled exit, and
\* wait_for_sms_code never returns Cancelled.
C24_SameAsNeverCancelled == []C24_Outcome /\ [][C24_Step]_vars

\* A wait_for_sms_code run made while the caller holds a cancelled token of
\* its own polled and ran into the timeout.
C24_Witness ==
    /\ own_token_run
    /\ caller_token
    /\ pc = "done"
    /\ Len(sms_calls) >= 1
    /\ result.kind = "SmsTimeout"

\* ------------------------------------------------------------------------
\* C25
\* ------------------------------------------------------------------------

\* The decorator's retry budget for the call in hand is used up.
budget_exhausted == inner_calls = retry_config.max_retries + 1

C25_Outcome ==
    \* get_number
    /\ (gn_pc = "done" /\ gn_result.kind = "Provider" /\ gn_result.is_retryable) =>
          /\ call_op = "get_phone_number"
          /\ budget_exhausted
          /\ gn_provider_calls = << "get_phone_number" >>
    \* wait_for_sms_code and wait_for_sms_code_cancellable
    /\ (pc = "done" /\ result.kind # "Ok") =>
          ~SmsSolverServiceError_is_retryable(result)

\* A retryable error that comes out of the decorated get_sms_code has used
\* up the budget, and the loop goes on to its sleep without returning.
C25_Step ==
    (/\ pc = "polling" /\ pc' # pc
     /\ call_op = "get_sms_code" /\ call_pc = "done"
     /\ ~call_result.ok /\ is_retryable(call_result.error)) =>
        /\ budget_exhausted
        /\ pc' = "sleeping"
        /\ result' = Pending
        /\ cancel_calls' = cancel_calls

\* C25: with the service built over SmsRetryableProvider, get_number
\* returns a Provider error with is_retryable only after max_retries + 1
\* inner get_phone_number calls, and wait_for_sms_code never returns a
\* retryable error: one that outlives the decorator's budget is absorbed by
\* the polling loop, which keeps polling.
C25_TransientAbsorbed == []C25_Outcome /\ [][C25_Step]_vars

\* A poll met retryable errors until the decorator's budget of at least one
\* retry was used up, the loop went on, and the run ended at the timeout.
C25_Witness ==
    /\ pc = "done"
    /\ retry_config.max_retries >= 1
    /\ transient_count >= 1
    /\ Len(sleeps) >= retry_config.max_retries
    /\ result.kind = "SmsTimeout"

\* ------------------------------------------------------------------------
\* C26
\* ------------------------------------------------------------------------

\* C26: in SmsService::wait_for_sms_code of src/service.rs every exit
\* without a code makes exactly one cancel_activation call, and a failure of
\* that call is reported as an outcome of its own rather than masked by
\* SmsTimeout or by the original Provider error.
C26_LegacyCancelFailureReported ==
    (legacy_pc = "done" /\ legacy_result.kind # "Ok") =>
        /\ legacy_cancel_calls = << legacy_task_id >>
        /\ ~legacy_cancel_result.ok =>
              legacy_result.kind \notin {"SmsTimeout", "Provider"}

\* ------------------------------------------------------------------------
\* C27
\* ------------------------------------------------------------------------

\* The latest get_sms_code call has returned Ok(Some(code)).
code_returned == last_response.ok /\ last_response.some

\* C27: when a get_sms_code call that was started returns Some(code), the
\* run returns Ok(code) and makes no cancel_activation call (the run has no
\* other provider call to make), also when the token was cancelled or the
\* timeout elapsed while the call was in flight.
C27_CodeWins ==
    code_returned =>
        /\ pc = "done"
        /\ result = Ok(last_response.code)
        /\ cancel_calls = << >>
        /\ cancel_result = NoResponse
        /\ exit_path = "none"

\* The code came back after the token was cancelled during the call and
\* after the timeout had elapsed.
C27_Witness ==
    /\ code_returned
    /\ result.kind = "Ok"
    /\ raised_at.pc = "polling"
    /\ entry = "wait_for_sms_code_cancellable"
    /\ clock >= timeout
    /\ Len(sms_calls) >= 2

\* ------------------------------------------------------------------------
\* C28
\* ------------------------------------------------------------------------

\* get_number failed although the provider had rented a number.
failed_after_rental ==
    /\ gn_pc = "done"
    /\ gn_provider_result.ok
    /\ gn_result.kind \in {"InvalidDialCode", "NumberParse"}

\* C28: get_number makes exactly one provider call, get_phone_number, and
\* never cancel_activation or finish_activation; when it fails with
\* InvalidDialCode or NumberParse the provider had rented a number, the
\* rented task is left uncancelled and its task id is not in the error.
C28_RentalLeftBehind ==
    /\ gn_pc \in {"calling", "done"} =>
          gn_provider_calls = << "get_phone_number" >>
    /\ (gn_pc = "done" /\ gn_result.kind \in {"InvalidDialCode", "NumberParse"}) =>
          /\ gn_provider_result.ok
          /\ gn_provider_result.task_id \in TaskIds
          /\ "task_id" \notin DOMAIN gn_result
          /\ \A f \in DOMAIN gn_result :
                gn_result[f] # gn_provider_result.task_id

\* The provider rented a number of another country: NumberParse.
C28_Witness ==
    /\ failed_after_rental
    /\ gn_result.kind = "NumberParse"
    /\ gn_provider_result.full_number # << >>
    /\ gn_provider_calls = << "get_phone_number" >>

\* ------------------------------------------------------------------------
\* C29
\* ------------------------------------------------------------------------

\* The Provider values the service builds from an error e of the provider:
\* in get_number, and on the permanent-error exit of the polling loop.
constructed_Provider(x) ==
    \/ x = map_provider_error(x.source)
    \/ (~is_retryable(x.source)
         /\ x = Provider(x.source, FALSE, should_retry_operation(x.source)))

\* Error values of the kinds the repository defines: SmsActivateErrorCode,
\* SmsActivateError, and the SmsSolverServiceError values the service
\* constructs over SmsActivateError.
repository_error(x) ==
    IF is_service_error(x)
    THEN (x.kind = "Provider" =>
            (x.source \in SmsActivateError /\ constructed_Provider(x)))
    ELSE x \in SmsActivateError \cup ErrorCodeValues

\* C29: for every error kind defined in the repository,
\* is_retryable() implies should_retry_operation().
C29_RetryableImpliesFresh ==
    (cls_pc = "done" /\ repository_error(cls_error)) =>
        (cls_is_retryable => cls_should_retry_operation)

\* A retryable Provider error built by get_number was classified.
C29_Witness ==
    /\ cls_pc = "done"
    /\ is_service_error(cls_error)
    /\ cls_error.kind = "Provider"
    /\ repository_error(cls_error)
    /\ cls_error.source.variant = "Service"
    /\ cls_is_retryable
    /\ cls_should_retry_operation

\* ------------------------------------------------------------------------
\* C30
\* ------------------------------------------------------------------------

C30_Count ==
    /\ poll_count = Len(sms_calls)
    /\ pc = "idle" => poll_count = 0
    /\ (pc = "done" /\ result.kind \in {"SmsTimeout", "Cancelled"}) =>
          result.poll_count = Len(sms_calls)

\* poll_count grows by exactly one, and only in the step that starts a
\* get_sms_code call.
C30_Step ==
    /\ poll_count' \in {poll_count, poll_count + 1}
    /\ poll_count' = poll_count + 1 <=>
          (sms_calls' = Append(sms_calls, task_id) /\ pc' = "polling")

\* C30: at every point of a wait_for_sms_code_cancellable run poll_count
\* equals the number of get_sms_code calls the run has started, so the
\* poll_count of SmsTimeout or Cancelled is the number of polls issued.
C30_PollCount == []C30_Count /\ [][C30_Step]_vars

\* A run that issued two polls was cancelled.
C30_Witness ==
    /\ pc = "done"
    /\ result.kind = "Cancelled"
    /\ result.poll_count = 2
    /\ Len(sms_calls) = 2

====
